---- MODULE Spec2Model ----
(***************************************************************************)
(* A model of goco's commit-generation pipeline: the `generate` command    *)
(* (cmd/generate.go, PreRunE and RunE), the top-level handler (main), the  *)
(* two providers (providers/gemini.go, providers/groq.go) and the git      *)
(* repository the command's subprocesses read and write.                  *)
(*                                                                         *)
(* Texts are sequences of tokens: a token is a whitespace character or a   *)
(* maximal whitespace-free word.  Errors are chains of layers, outermost   *)
(* first, the empty chain being nil.  Model names are sequences of name    *)
(* segments ("models/", "gemini-", ...), the empty sequence being "".      *)
(***************************************************************************)
EXTENDS Integers, Sequences, FiniteSets, TLC

\* ------------------------------------------------------------------ bounds

\* How many times the user (or any other process) touches the repository.
MaxExternal == 1

\* How many models the Gemini backend returns at most.
MaxRaw == 2

\* How many layers the error chains handed to main's switch have at most.
MaxChain == 3

\* How many messages the indicator's model is sent when it is driven on its own.
MaxMsgs == 3

\* ------------------------------------------------------------- exit codes

exitOK == 0
exitError == 1
exitCancel == 2
exitAuth == 4
exitPending == 8

\* ------------------------------------------------------------------ texts

WS == {" ", "\n"}

Range(s) == {s[i] : i \in 1..Len(s)}

RECURSIVE TrimLeft(_)
TrimLeft(t) ==
    IF t # <<>> /\ Head(t) \in WS THEN TrimLeft(Tail(t)) ELSE t

RECURSIVE TrimRight(_)
TrimRight(t) ==
    IF t # <<>> /\ t[Len(t)] \in WS THEN TrimRight(SubSeq(t, 1, Len(t) - 1)) ELSE t

\* strings.TrimSpace
TrimSpace(t) == TrimRight(TrimLeft(t))

IsWord(x) == x \notin WS

\* strings.Fields: the maximal whitespace-free runs, in order.
Fields(t) == SelectSeq(t, IsWord)

RECURSIVE Concat(_)
Concat(ss) == IF ss = <<>> THEN <<>> ELSE Head(ss) \o Concat(Tail(ss))

\* ----------------------------------------------------------------- errors

Layer(type, msg, field, help) ==
    [type |-> type, msg |-> msg, field |-> field, help |-> help]

Nil == <<>>

\* errors.New(msg)
ErrorsNew(msg) == <<Layer("errorString", msg, "", "")>>

\* fmt.Errorf(msg + ": %w", err)
Errorf(msg, err) == <<Layer("wrapError", msg, "", "")>> \o err

ErrNoEditor == ErrorsNew("no text editor available")
ErrGitRepository == ErrorsNew("not a git repository")
ErrNoStagedFiles == ErrorsNew("no staged files found")

\* ValidationError has no Err field and no Unwrap: the chain ends at it.
ValidationError(field, msg, help) == <<Layer("ValidationError", msg, field, help)>>

\* ConfigError has no Err field either.
ConfigError(field, msg) == <<Layer("ConfigError", msg, field, "")>>

ProviderError(prov, msg, err) == <<Layer("ProviderError", msg, prov, "")>> \o err

GitError(command, msg, err) == <<Layer("GitError", msg, command, "")>> \o err

APIError(msg, err) == <<Layer("APIError", msg, "", "")>> \o err

\* errors.As for the pointer type named `type`
ErrorsAs(err, type) == \E i \in 1..Len(err) : err[i].type = type

\* errors.Is for a sentinel created by errors.New
ErrorsIs(err, target) ==
    \E i \in 1..Len(err) : SubSeq(err, i, i) = target

\* err wraps cause: cause is what is left of the chain after some layers
Wraps(err, cause) ==
    \E i \in 1..Len(err) : SubSeq(err, i, Len(err)) = cause

\* -------------------------------------------------------------- providers

\* strings.TrimPrefix(name, "models/")
TrimPrefixModels(name) ==
    IF name # <<>> /\ Head(name) = "models/" THEN Tail(name) ELSE name

\* regexp `^gemini-`
MatchesGeminiPrefix(name) == name # <<>> /\ Head(name) = "gemini-"

\* slices.Contains
RECURSIVE Contains(_, _)
Contains(list, x) ==
    IF list = <<>> THEN FALSE
    ELSE IF Head(list) = x THEN TRUE
    ELSE Contains(Tail(list), x)

\* The first loop of GeminiProvider.ListModels: strip, keep the matches.
RECURSIVE GeminiFilterLoop(_, _)
GeminiFilterLoop(models, filtered) ==
    IF models = <<>> THEN filtered
    ELSE LET name == TrimPrefixModels(Head(models))
         IN  GeminiFilterLoop(Tail(models),
                 IF MatchesGeminiPrefix(name) THEN Append(filtered, name) ELSE filtered)

\* The second loop of GeminiProvider.ListModels: strip, keep everything.
RECURSIVE GeminiFallbackLoop(_, _)
GeminiFallbackLoop(models, filtered) ==
    IF models = <<>> THEN filtered
    ELSE GeminiFallbackLoop(Tail(models),
             Append(filtered, TrimPrefixModels(Head(models))))

\* A ListModels without the fallback: the filter's result as it is.
GeminiFallbackMissing(models, filtered) == filtered

\* What ListModels does with an empty filter result.
GeminiFallback(models, filtered) ==
    IF Len(filtered) = 0 THEN GeminiFallbackLoop(models, filtered) ELSE filtered

\* GeminiProvider.ListModels, given what geminiListModelsFunc returned.
GeminiListModels(listing) ==
    IF listing.err # Nil
    THEN [models |-> <<>>, err |-> Errorf("failed to list models", listing.err)]
    ELSE [models |-> GeminiFallback(listing.models,
                                    GeminiFilterLoop(listing.models, <<>>)),
          err |-> Nil]

\* A ValidateModel that looks the model up among the backend's own names.
GeminiValidateModelRawNames(listing, model) ==
    IF listing.err # Nil THEN Errorf("failed to list models", listing.err)
    ELSE IF ~Contains(listing.models, model)
    THEN ErrorsNew("model not available")
    ELSE Nil

\* GeminiProvider.ValidateModel
GeminiValidateModel(listing, model) ==
    LET res == GeminiListModels(listing)
    IN  IF res.err # Nil THEN res.err
        ELSE IF ~Contains(res.models, model)
        THEN ErrorsNew("model not available")
        ELSE Nil

\* The static list groqListModelsFunc returns unless a test replaces it.
GroqStaticModels ==
    << <<"groq/compound">>, <<"groq/compound-mini">>,
       <<"llama-3.1-8b-instant">>, <<"llama-3.3-70b-versatile">>,
       <<"mixtral-8x7b-32768">>, <<"openai/gpt-oss-120b">>,
       <<"openai/gpt-oss-20b">>,
       <<"meta-llama/llama-4-maverick-17b-128e-instruct">>,
       <<"meta-llama/llama-4-scout-17b-16e-instruct">>,
       <<"moonshotai/kimi-k2-instruct-0905">>, <<"qwen/qwen3-32b">> >>

groqListModelsFunc == [models |-> GroqStaticModels, err |-> Nil]

\* GroqProvider.ListModels: whatever groqListModelsFunc returned.
GroqListModels(listing) == listing

\* A ValidateModel that drops the listing's error (`models, _ := ...`).
GroqValidateModelDropsError(listing, model) ==
    LET res == GroqListModels(listing)
    IN  IF ~Contains(res.models, model)
        THEN ErrorsNew("model not available")
        ELSE Nil

\* GroqProvider.ValidateModel
GroqValidateModel(listing, model) ==
    LET res == GroqListModels(listing)
    IN  IF res.err # Nil THEN Errorf("failed to list groq models", res.err)
        ELSE IF ~Contains(res.models, model)
        THEN ErrorsNew("model not available")
        ELSE Nil

\* The earlier revision of the Groq provider (providers/groq.go): the list is
\* built in place, so the listing has no failure path, and ValidateModel
\* drops the error value ListModels returns.
GroqInlineListModels == [models |-> GroqStaticModels, err |-> Nil]

GroqInlineValidateModel(model) ==
    LET res == GroqInlineListModels
    IN  IF ~Contains(res.models, model)
        THEN ErrorsNew("model not available")
        ELSE Nil

\* Provider.ListModels / Provider.ValidateModel, by variant.
ListModels(prov, listing) ==
    CASE prov = "gemini" -> GeminiListModels(listing)
      [] prov = "groq" -> GroqListModels(listing)
      [] OTHER -> GroqInlineListModels

ValidateModel(prov, listing, model) ==
    CASE prov = "gemini" -> GeminiValidateModel(listing, model)
      [] prov = "groq" -> GroqValidateModel(listing, model)
      [] OTHER -> GroqInlineValidateModel(model)

\* ------------------------------------------------------- the git repository

\* The tracked files.  One name holds a space; git prints it unquoted.
Files == {"a", "a b", "b"}

\* git prints paths in byte order.
FileOrder == <<"a", "a b", "b">>

NameTokens(f) ==
    CASE f = "a" -> <<"a">>
      [] f = "b" -> <<"b">>
      [] f = "a b" -> <<"a", " ", "b">>

\* Contents are version numbers; 0 is "no such file".
Changed(from, to) == SelectSeq(FileOrder, LAMBDA f : from[f] # to[f])

\* stdout of `git diff --name-only --cached`: one staged path per line.
GitDiffNameOnlyCached(hd, idx) ==
    LET fs == Changed(hd, idx)
    IN  Concat([i \in 1..Len(fs) |-> NameTokens(fs[i]) \o <<"\n">>])

\* stdout of `git diff --no-color` between two trees, as its hunks.
DiffHunks(from, to) ==
    LET fs == Changed(from, to)
    IN  [i \in 1..Len(fs) |-> [path |-> fs[i], old |-> from[fs[i]], new |-> to[fs[i]]]]

\* `git diff --no-color --staged` compares HEAD with the index; `git diff
\* --no-color` compares the index with the working tree.
GitDiff(useStaged, hd, idx, wt) ==
    IF useStaged THEN DiffHunks(hd, idx) ELSE DiffHunks(idx, wt)

\* stdout of `git status`.  The long format always has its header; the short
\* format (status.short = true) prints the entries alone, so nothing at all
\* for a clean tree.
StatusEntries(short, hd, idx, wt) ==
    LET st == Changed(hd, idx)
        un == Changed(idx, wt)
    IN  Concat([i \in 1..Len(st) |->
                   IF short THEN <<"M", " ", " ">> \o NameTokens(st[i]) \o <<"\n">>
                   ELSE <<" ", "staged:", " ">> \o NameTokens(st[i]) \o <<"\n">>])
        \o
        Concat([i \in 1..Len(un) |->
                   IF short THEN <<" ", "M", " ">> \o NameTokens(un[i]) \o <<"\n">>
                   ELSE <<" ", "modified:", " ">> \o NameTokens(un[i]) \o <<"\n">>])

GitStatus(short, hd, idx, wt) ==
    IF short THEN StatusEntries(short, hd, idx, wt)
    ELSE <<"On", " ", "branch", " ", "main", "\n">> \o StatusEntries(short, hd, idx, wt)

\* `git add -u`: the index takes the working tree's content of every file it
\* already holds.
GitAddU(idx, wt) == [f \in Files |-> IF idx[f] # 0 THEN wt[f] ELSE idx[f]]

\* A pathspec names a file git knows (in the index or in HEAD).
KnownToGit(p, hd, idx) == p \in Files /\ (idx[p] # 0 \/ hd[p] # 0)

\* `git commit -m <msg>`: commits the index; fails when nothing is staged.
GitCommitAll(hd, idx, wt) ==
    [ok |-> idx # hd, head |-> idx, index |-> idx]

\* `git commit -m <msg> --only -- <paths...>`: fails on a pathspec git does not
\* know; otherwise commits the working-tree content of the named paths and
\* nothing else, and fails when that changes nothing.
GitCommitOnly(paths, hd, idx, wt) ==
    LET sel == {f \in Files : f \in Range(paths)}
        newHead == [f \in Files |-> IF f \in sel THEN wt[f] ELSE hd[f]]
        newIdx == [f \in Files |-> IF f \in sel THEN wt[f] ELSE idx[f]]
    IN  [ok |-> (\A i \in 1..Len(paths) : KnownToGit(paths[i], hd, idx))
                /\ newHead # hd,
         head |-> newHead, index |-> newIdx]

GitCommit(cmd, hd, idx, wt) ==
    IF cmd.only THEN GitCommitOnly(cmd.paths, hd, idx, wt)
    ELSE GitCommitAll(hd, idx, wt)

\* exec's error for a subprocess that failed
ExitError == <<Layer("ExitError", "exit status 1", "", "")>>

\* ------------------------------------------------------------- generation

referLink == "conventional-commits-cheatsheet.md"

\* The prompt both providers build with fmt.Sprintf: the fixed template with
\* the status, the diff and the link in place, and the custom instructions
\* appended when there are any.
BuildPrompt(gitStatus, gitDiff, custom) ==
    [status |-> gitStatus, diff |-> gitDiff, link |-> referLink,
     additional |-> IF custom # "" THEN <<custom>> ELSE <<>>]

\* GeminiProvider.GenerateCommitMessage; resp is what GenerateContent returns.
GeminiGenerateCommitMessage(g, gitStatus, gitDiff, custom, resp) ==
    [request |-> [model |-> g.model, prompt |-> BuildPrompt(gitStatus, gitDiff, custom)],
     msg |-> IF resp.err # Nil THEN <<>> ELSE resp.text,
     err |-> IF resp.err # Nil THEN Errorf("Gemini API error", resp.err) ELSE Nil]

\* GroqProvider.GenerateCommitMessage; resp is what ChatCompletion returns.
GroqGenerateCommitMessage(g, gitStatus, gitDiff, custom, resp) ==
    [request |-> [model |-> g.model, prompt |-> BuildPrompt(gitStatus, gitDiff, custom)],
     msg |-> IF resp.err # Nil \/ resp.choices = 0 THEN <<>> ELSE resp.text,
     err |-> IF resp.err # Nil THEN Errorf("Groq API error", resp.err)
             ELSE IF resp.choices = 0 THEN ErrorsNew("no response from Groq API")
             ELSE Nil]

GenerateCommitMessage(g, gitStatus, gitDiff, custom, resp) ==
    IF g.kind = "gemini"
    THEN GeminiGenerateCommitMessage(g, gitStatus, gitDiff, custom, resp)
    ELSE GroqGenerateCommitMessage(g, gitStatus, gitDiff, custom, resp)

GeneratedText == <<"feat:", " ", "x", "\n">>

\* What a backend can answer: a failure, no candidate, an empty text, a text.
BackendResponses ==
    { [err |-> ErrorsNew("backend unavailable"), choices |-> 0, text |-> <<>>],
      [err |-> Nil, choices |-> 0, text |-> <<>>],
      [err |-> Nil, choices |-> 1, text |-> <<>>],
      [err |-> Nil, choices |-> 1, text |-> GeneratedText] }

\* ------------------------------------------------------------- the editor

FallbackEditors == <<"vim", "nano", "vi">>

\* The loop over the fallback editors: the first one exec.LookPath finds.
RECURSIVE FirstOnPath(_, _)
FirstOnPath(editors, path) ==
    IF editors = <<>> THEN ""
    ELSE IF Head(editors) \in path THEN Head(editors)
    ELSE FirstOnPath(Tail(editors), path)

\* ResolveEditor as it would be if VISUAL were looked at before EDITOR.
ResolveEditorVisualFirst(os) ==
    IF os.VISUAL # "" THEN os.VISUAL
    ELSE IF os.EDITOR # "" THEN os.EDITOR
    ELSE FirstOnPath(FallbackEditors, os.path)

ResolveEditor(os) ==
    IF os.EDITOR # "" THEN os.EDITOR
    ELSE IF os.VISUAL # "" THEN os.VISUAL
    ELSE FirstOnPath(FallbackEditors, os.path)

OsError == <<Layer("PathError", "i/o failure", "", "")>>

\* editCommitMessage as it would be if a blank file were taken as the message.
editCommitMessageTakesBlank(message, os) ==
    LET editor == ResolveEditor(os)
    IN  IF os.fails # "none" \/ editor = ""
        THEN [msg |-> <<>>, err |-> Errorf("failed", OsError), ran |-> "",
              tmp |-> "none"]
        ELSE [msg |-> TrimSpace(os.content), err |-> Nil, ran |-> editor,
              tmp |-> "removed"]

\* RemoveTemp as it would be if the removal were deferred only once the
\* editor had been started.
RemoveTempAfterEditorOnly(r) ==
    IF r.ran # "" THEN [r EXCEPT !.tmp = "removed"] ELSE r

\* `defer os.Remove(tmpPath)`: applied to whatever is returned after it.
RemoveTemp(r) == [r EXCEPT !.tmp = "removed"]

\* editCommitMessage; os holds the operating system's answers: which step
\* fails (if any), the environment, the editors on the path and the file's
\* content when the editor exits.  tmp says what has become of the temp
\* file: never created, still there, removed.
editCommitMessage(message, os) ==
    LET editor == ResolveEditor(os)
        editedMessage == TrimSpace(os.content)
        failed(e, ran) == [msg |-> <<>>, err |-> e, ran |-> ran, tmp |-> "exists"]
    IN  IF os.fails = "create"
        THEN [msg |-> <<>>, err |-> Errorf("failed to create temp file", OsError),
              ran |-> "", tmp |-> "none"]
        ELSE RemoveTemp(
               IF os.fails = "write"
               THEN failed(Errorf("failed to write to temp file", OsError), "")
               ELSE IF os.fails = "close"
               THEN failed(Errorf("failed to close temp file", OsError), "")
               ELSE IF editor = ""
               THEN failed(Errorf("failed to find editor", ErrNoEditor), "")
               ELSE IF os.fails = "run"
               THEN failed(Errorf("editor failed", ExitError), editor)
               ELSE IF os.fails = "read"
               THEN failed(Errorf("failed to read edited message", OsError), editor)
               ELSE IF editedMessage = <<>>
               THEN [msg |-> message, err |-> Nil, ran |-> editor, tmp |-> "exists"]
               ELSE [msg |-> editedMessage, err |-> Nil, ran |-> editor,
                     tmp |-> "exists"])

EditedText == <<"\n", "fix:", " ", "y", "\n">>

EditorWorlds ==
    [fails : {"create", "write", "close", "run", "read"},
     EDITOR : {"ed"}, VISUAL : {""}, path : {{}}, content : {EditedText}]
    \cup
    [fails : {"none"}, EDITOR : {"", "ed"}, VISUAL : {"", "vis"},
     path : {{}, {"nano", "vi"}}, content : {<<>>, <<" ", "\n">>, EditedText}]

\* ------------------------------------------------------------------ state

VARIABLES
    provider,            \* --provider
    model,               \* --model
    staged,              \* --staged
    edit,                \* --edit
    customInstructions,  \* --custom-instructions
    cfgDefaultProvider,  \* General.DefaultProvider of the loaded configuration
    statusShort,         \* git's status.short setting
    head, index, worktree,   \* the repository: content of each file in each tree
    extCount,            \* how often somebody else has touched the repository
    pc,                  \* where the process is
    spinner,             \* the indicator: its program and its goroutine
    frame,               \* the frame the indicator shows while it spins
    interrupted,         \* the indicator has handled a ctrl+c
    genErr,              \* the error GenerateCommitMessage returned
    aiProvider,          \* the provider RunE constructed
    gitStatusOutput, gitDiffOutput, commitMessage, stagedFiles,  \* RunE's locals
    final,               \* the commit command RunE built
    err,                 \* what Execute returned to main
    exitCode,            \* -1 while the process runs
    stderr,              \* what main printed
    calls,               \* provider calls and subprocesses in the order made,
                         \* each with whether it succeeded
    genCall,             \* the arguments of GenerateCommitMessage, its request,
                         \* the backend's answer and the message returned
    captured,            \* what `git status` and `git diff` wrote to stdout
    repoAtStart,         \* the repository when the process started
    repoAtGenerate,      \* the repository when generation started
    editCall,            \* the message editCommitMessage was given, and the
                         \* file's content if it came to read it
    listingAt,           \* HEAD and the index when the staged files were listed,
                         \* and the list made of them
    repoAtCommit,        \* the repository when `git commit` was started
    obs,                 \* what an observer of the run notes: the flags as
                         \* given, the model validated, the cause of a
                         \* failure, who printed it, who ended the process,
                         \* and how often `done` went through the channel
    probe                \* a provider under test: its inputs and results

flags == <<provider, model, staged, edit, customInstructions, cfgDefaultProvider,
           statusShort>>
repo == <<head, index, worktree>>
locals == <<aiProvider, gitStatusOutput, gitDiffOutput, commitMessage, stagedFiles,
            final>>
ghosts == <<genCall, captured, repoAtStart, repoAtGenerate, editCall, listingAt,
           repoAtCommit>>
indicator == <<spinner, frame, interrupted>>
vars == <<flags, repo, extCount, pc, indicator, genErr, locals, err, exitCode, stderr,
          calls, ghosts, obs, probe>>

Repo == [head |-> head, index |-> index, worktree |-> worktree]

NoProvider == [kind |-> "", model |-> <<>>]
NoCommand == [run |-> FALSE, m |-> <<>>, only |-> FALSE, paths |-> <<>>]
NoCall == [made |-> FALSE]
NoProbe == [stage |-> "idle"]

\* The observer's notes: one field changed, the others kept.
Note(field, value) == obs' = [obs EXCEPT ![field] = value]

Call(op, ok) == [op |-> op, ok |-> ok]

DefaultGeminiModel == <<"gemini-", "2.5-flash">>
DefaultGroqModel == <<"llama-3.3-70b-versatile">>
UnknownModel == <<"nope">>
\* Models other than the defaults that the backends list.
OtherGeminiModel == <<"gemini-", "pro">>
OtherGroqModel == <<"llama-3.1-8b-instant">>

\* What the flags, the configuration and git's settings can be.  A configured
\* default provider only matters when --provider is absent.
AllFlags ==
    { f \in [provider : {"", "gemini", "groq", "bogus"},
             model : {<<>>, UnknownModel, OtherGeminiModel, OtherGroqModel},
             cfg : {"", "bogus"}, staged : BOOLEAN, edit : BOOLEAN,
             custom : {"", "focus on api changes"}, short : BOOLEAN] :
        /\ f.provider # "" => f.cfg = ""
        /\ f.model # <<>> => (f.custom = "" /\ ~f.short) }

\* The flags that decide the commit scope, the rest at their defaults.
ScopeFlags ==
    { f \in AllFlags : f.provider = "groq" /\ f.model = <<>> /\ f.custom = ""
                       /\ ~f.short }

\* A file as the user left it: untouched, changed and staged, changed only.
Clean == [head |-> 1, index |-> 1, worktree |-> 1]
Staged == [head |-> 1, index |-> 2, worktree |-> 2]
Dirty == [head |-> 1, index |-> 1, worktree |-> 2]

RepoOf(a, ab, b) ==
    LET st == [f \in Files |-> CASE f = "a" -> a [] f = "a b" -> ab [] f = "b" -> b]
    IN  [head |-> [f \in Files |-> st[f].head],
         index |-> [f \in Files |-> st[f].index],
         worktree |-> [f \in Files |-> st[f].worktree]]

AllRepos ==
    { RepoOf(a, ab, b) : a \in {Clean, Staged, Dirty}, ab \in {Clean, Staged},
                         b \in {Clean, Dirty} }

FewRepos == { RepoOf(Clean, Clean, Clean), RepoOf(Staged, Clean, Dirty) }

\* The state when the process starts, for given flags and a given repository.
InitWith(F, R) ==
    /\ \E f \in F :
          /\ provider = f.provider
          /\ model = f.model
          /\ cfgDefaultProvider = f.cfg
          /\ staged = f.staged
          /\ edit = f.edit
          /\ customInstructions = f.custom
          /\ statusShort = f.short
          /\ obs = [flagModel |-> f.model,
                    validated |-> <<>>, notARepo |-> FALSE, cause |-> Nil,
                    printed |-> <<>>, exitedBy |-> "", acks |-> 0]
    /\ \E r \in R :
          /\ head = r.head /\ index = r.index /\ worktree = r.worktree
          /\ repoAtStart = r
          /\ repoAtGenerate = r
          /\ listingAt = [done |-> FALSE, head |-> r.head, index |-> r.index,
                          files |-> <<>>]
          /\ repoAtCommit = [head |-> r.head, index |-> r.index,
                             worktree |-> r.worktree, env |-> TRUE]
    /\ extCount = 0
    /\ pc = "prerun"
    /\ spinner = "idle" /\ frame = 0 /\ interrupted = FALSE
    /\ genErr = Nil
    /\ aiProvider = NoProvider
    /\ gitStatusOutput = <<>> /\ gitDiffOutput = <<>>
    /\ commitMessage = <<>> /\ stagedFiles = <<>>
    /\ final = NoCommand
    /\ err = Nil
    /\ exitCode = -1
    /\ stderr = <<>>
    /\ calls = <<>>
    /\ genCall = NoCall
    /\ editCall = NoCall
    /\ captured = [status |-> <<>>, diff |-> <<>>]

\* Every flag combination, over a clean and a changed repository.
Init == InitWith(AllFlags, FewRepos) /\ probe = NoProbe

\* The scope flags, over every repository.
ScopeInit == InitWith(ScopeFlags, AllRepos) /\ probe = NoProbe

\* ------------------------------------------- the user and other processes

\* Once RunE has returned nothing reads the repository any more.
\* The repository matters to the run where it is about to read or write it,
\* and while the provider is at work: a change made at any other moment is the
\* same change made at the next of these.
Running == pc \in {"status", "diff", "inflight", "scope", "commit"}

\* Somebody edits a file.
ExternalEdit(f) ==
    /\ Running /\ extCount < MaxExternal
    /\ worktree' = [worktree EXCEPT ![f] = @ + 1]
    /\ extCount' = extCount + 1
    /\ UNCHANGED <<obs, indicator, genErr, flags, head, index, pc, locals, err, exitCode, stderr, calls,
                   ghosts, probe>>

\* Somebody runs `git add <f>`.
ExternalStage(f) ==
    /\ Running /\ extCount < MaxExternal
    /\ worktree[f] # index[f]
    /\ index' = [index EXCEPT ![f] = worktree[f]]
    /\ extCount' = extCount + 1
    /\ UNCHANGED <<obs, indicator, genErr, flags, head, worktree, pc, locals, err, exitCode, stderr, calls,
                   ghosts, probe>>

\* Somebody runs `git restore --staged <f>`.
ExternalUnstage(f) ==
    /\ Running /\ extCount < MaxExternal
    /\ index[f] # head[f]
    /\ index' = [index EXCEPT ![f] = head[f]]
    /\ extCount' = extCount + 1
    /\ UNCHANGED <<obs, indicator, genErr, flags, head, worktree, pc, locals, err, exitCode, stderr, calls,
                   ghosts, probe>>

External ==
    \E f \in Files : ExternalEdit(f) \/ ExternalStage(f) \/ ExternalUnstage(f)

\* ------------------------------------------------------- generateCmd.PreRunE

validProviders == {"gemini", "groq"}

\* PreRunEResult as it would be without the check of --model.
PreRunEResultNoModelCheck(prov, mdl) ==
    IF prov # "" /\ prov \notin validProviders
    THEN ValidationError("provider", "invalid provider",
                         "supported providers: gemini, groq")
    ELSE Nil

PreRunEResult(prov, mdl) ==
    IF prov # "" /\ prov \notin validProviders
    THEN ValidationError("provider", "invalid provider",
                         "supported providers: gemini, groq")
    ELSE IF mdl # <<>> /\ prov = ""
    THEN ValidationError("model", "model requires provider",
                         "specify --provider when using --model flag")
    ELSE Nil

PreRunE ==
    /\ pc = "prerun"
    /\ LET e == PreRunEResult(provider, model)
       IN  /\ err' = e
           /\ pc' = IF e = Nil THEN "init" ELSE "returned"
    /\ repoAtStart' = Repo
    /\ UNCHANGED <<obs, indicator, genErr, flags, repo, extCount, locals, exitCode, stderr, calls, genCall,
                   captured, repoAtGenerate, editCall, listingAt, repoAtCommit, probe>>

\* ---------------------------------------------- generateCmd.RunE, step by step

\* Config.GetDefaultProvider
GetDefaultProvider(configured) == IF configured = "" THEN "gemini" ELSE configured

\* DefaultModel as it would be if Gemini's default were used for every provider.
DefaultModelGeminiOnly(prov) == DefaultGeminiModel

DefaultModel(prov) == IF prov = "groq" THEN DefaultGroqModel ELSE DefaultGeminiModel

\* Provider selection, API key, default model, construction.  key says how the
\* API key was obtained; made says whether the constructor succeeded.
InitProvider ==
    /\ pc = "init"
    /\ LET prov == IF provider = "" THEN GetDefaultProvider(cfgDefaultProvider)
                   ELSE provider
       IN  /\ provider' = prov
           /\ IF prov \notin validProviders
              THEN /\ err' = ValidationError("provider", "unsupported provider",
                                             "supported providers: gemini, groq")
                   /\ pc' = "returned"
                   /\ UNCHANGED <<model, aiProvider, obs>>
              ELSE \E key \in {"given", "prompted", "promptFailed"}, made \in BOOLEAN :
                     IF key = "promptFailed"
                     THEN /\ err' = Errorf("failed to get API key",
                                           ErrorsNew("user aborted"))
                          /\ pc' = "returned"
                          /\ UNCHANGED <<model, aiProvider, obs>>
                     ELSE LET mdl == IF model = <<>> THEN DefaultModel(prov) ELSE model
                              e == Errorf("failed to create client", ErrorsNew("bad key"))
                          IN  /\ model' = mdl
                              /\ IF made
                                 THEN /\ aiProvider' = [kind |-> prov, model |-> mdl]
                                      /\ err' = Nil
                                      /\ pc' = "validate"
                                      /\ UNCHANGED obs
                                 ELSE /\ aiProvider' = aiProvider
                                      /\ err' = ProviderError(prov,
                                                    "failed to initialize provider", e)
                                      /\ pc' = "returned"
                                      /\ Note("cause", e)
    /\ UNCHANGED <<indicator, genErr, staged, edit, customInstructions, cfgDefaultProvider, statusShort,
                   repo, extCount, gitStatusOutput, gitDiffOutput, commitMessage,
                   stagedFiles, final, exitCode, stderr, calls, ghosts, probe>>

BoundedSeq(S, n) == UNION {[1..k -> S] : k \in 0..n}

\* Names a Gemini backend may return.
RawNames ==
    { <<"models/", "gemini-", "2.5-flash">>, <<"gemini-", "pro">>,
      <<"models/", "custom">>, <<"models/", "models/", "gemini-", "pro">> }

ListError == ErrorsNew("simulated list error")

Listed(models) == [models |-> models, err |-> Nil]
ListFailed == [models |-> <<>>, err |-> ListError]

\* What the provider's listing function can return in a run: the Gemini
\* backend's answer, or Groq's static list.
Listings(kind) ==
    IF kind = "gemini"
    THEN {ListFailed} \cup {Listed(l) : l \in BoundedSeq(RawNames, MaxRaw)}
    ELSE {groqListModelsFunc}

ModelHelp == "run 'goco models --provider <provider>' to list available models"

\* ValidateModelStep as it would be if RunE dropped ValidateModel's error.
ValidateModelStepIgnoresFailure ==
    /\ pc = "validate"
    /\ \E listing \in Listings(aiProvider.kind) :
          LET e == ValidateModel(aiProvider.kind, listing, model)
          IN  calls' = Append(calls, Call("ValidateModel", e = Nil))
    /\ err' = Nil
    /\ pc' = "status"
    /\ UNCHANGED <<obs, indicator, genErr, flags, repo, extCount, locals, exitCode, stderr, ghosts, probe>>

ValidateModelStep ==
    /\ pc = "validate"
    /\ \E listing \in Listings(aiProvider.kind) :
          LET e == ValidateModel(aiProvider.kind, listing, model)
          IN  /\ calls' = Append(calls, Call("ValidateModel", e = Nil))
              /\ obs' = [obs EXCEPT !.validated = model, !.cause = e]
              /\ IF e # Nil
                 THEN /\ err' = ValidationError("model", "validation failed for model",
                                                ModelHelp)
                      /\ pc' = "returned"
                 ELSE /\ err' = Nil
                      /\ pc' = "status"
    /\ UNCHANGED <<indicator, genErr, flags, repo, extCount, locals, exitCode, stderr, ghosts, probe>>

GitStatusStep ==
    /\ pc = "status"
    /\ \E ok \in BOOLEAN :
          /\ calls' = Append(calls, Call("git status", ok))
          /\ IF ~ok
             THEN /\ err' = GitError("git status", "failed to get repository status",
                                     ExitError)
                  /\ pc' = "returned"
                  /\ \E outside \in BOOLEAN :
                        obs' = [obs EXCEPT !.notARepo = outside, !.cause = ExitError]
                  /\ UNCHANGED <<gitStatusOutput, captured>>
             ELSE LET out == GitStatus(statusShort, head, index, worktree)
                  IN  /\ gitStatusOutput' = out
                      /\ captured' = [captured EXCEPT !.status = out]
                      /\ UNCHANGED obs
                      /\ IF Len(TrimSpace(out)) = 0
                         THEN /\ err' = GitError("git status", "no changes detected",
                                                 ErrGitRepository)
                              /\ pc' = "returned"
                         ELSE /\ err' = Nil
                              /\ pc' = "diff"
    /\ UNCHANGED <<indicator, genErr, flags, repo, extCount, aiProvider, gitDiffOutput, commitMessage,
                   stagedFiles, final, exitCode, stderr, genCall, repoAtStart,
                   repoAtGenerate, editCall, listingAt, repoAtCommit, probe>>

GitDiffStep ==
    /\ pc = "diff"
    /\ \E ok \in BOOLEAN :
          /\ calls' = Append(calls, Call("git diff", ok))
          /\ IF ~ok
             THEN /\ err' = GitError("git diff", "failed to get diff", ExitError)
                  /\ pc' = "returned"
                  /\ Note("cause", ExitError)
                  /\ UNCHANGED <<gitDiffOutput, captured>>
             ELSE LET out == GitDiff(staged, head, index, worktree)
                  IN  /\ gitDiffOutput' = out
                      /\ captured' = [captured EXCEPT !.diff = out]
                      /\ err' = Nil
                      /\ pc' = "generate"
                      /\ UNCHANGED obs
    /\ UNCHANGED <<indicator, genErr, flags, repo, extCount, aiProvider, gitStatusOutput, commitMessage,
                   stagedFiles, final, exitCode, stderr, genCall, repoAtStart,
                   repoAtGenerate, editCall, listingAt, repoAtCommit, probe>>

\* GenerateArgs as it would be if RunE trimmed the captured texts first.
GenerateArgsTrimmed ==
    [status |-> TrimSpace(gitStatusOutput), diff |-> gitDiffOutput,
     custom |-> customInstructions]

\* The arguments RunE hands to GenerateCommitMessage.
GenerateArgs ==
    [status |-> gitStatusOutput, diff |-> gitDiffOutput, custom |-> customInstructions]

\* GenerateStart as it would be if the indicator were told "done" at once.
GenerateStartSendsDone ==
    /\ pc = "generate"
    /\ spinner' = "quitting"
    /\ calls' = Append(calls, Call("spinnerProgram.Send", TRUE))
    /\ repoAtGenerate' = Repo
    /\ pc' = "inflight"
    /\ UNCHANGED <<obs, frame, interrupted, genErr, flags, repo, extCount, locals, err,
                   exitCode, stderr, genCall, captured, repoAtStart, editCall,
                   listingAt, repoAtCommit, probe>>

\* tea.NewProgram, `go func() { spinnerProgram.Run(); done <- true }()`, and
\* the provider call begins.  A program that cannot start (no terminal) has
\* Run return at once, and the goroutine is at `done <- true` straight away.
GenerateStart ==
    /\ pc = "generate"
    /\ \E started \in BOOLEAN : spinner' = IF started THEN "running" ELSE "finished"
    /\ repoAtGenerate' = Repo
    /\ pc' = "inflight"
    /\ UNCHANGED <<obs, frame, interrupted, genErr, flags, repo, extCount, locals, err,
                   exitCode, stderr, calls, genCall, captured, repoAtStart, editCall,
                   listingAt, repoAtCommit, probe>>

\* aiProvider.GenerateCommitMessage returns.
GenerateReturn ==
    /\ pc = "inflight"
    /\ \E resp \in BackendResponses :
          LET a == GenerateArgs
              r == GenerateCommitMessage(aiProvider, a.status, a.diff, a.custom, resp)
          IN  /\ calls' = Append(calls, Call("GenerateCommitMessage", r.err = Nil))
              /\ genCall' = [made |-> TRUE, status |-> a.status, diff |-> a.diff,
                             custom |-> a.custom, request |-> r.request,
                             resp |-> [err |-> resp.err, text |-> resp.text],
                             msg |-> r.msg]
              /\ commitMessage' = r.msg
              /\ genErr' = r.err
    /\ pc' = "senddone"
    /\ UNCHANGED <<obs, indicator, flags, repo, extCount, aiProvider, gitStatusOutput,
                   gitDiffOutput, stagedFiles, final, err, exitCode, stderr, captured,
                   repoAtStart, repoAtGenerate, editCall, listingAt, repoAtCommit,
                   probe>>

\* spinnerProgram.Send("done"): a program that still runs hands the message to
\* Update, which sets m.done (the view is empty from then on) and returns
\* tea.Quit; a program that has terminated drops it.
SendDone ==
    /\ pc = "senddone"
    /\ calls' = Append(calls, Call("spinnerProgram.Send", TRUE))
    /\ spinner' = IF spinner = "running" THEN "quitting" ELSE spinner
    /\ frame' = 0
    /\ pc' = "sendquit"
    /\ UNCHANGED <<obs, interrupted, genErr, flags, repo, extCount, locals, err,
                   exitCode, stderr, ghosts, probe>>

\* spinnerProgram.Quit()
SendQuit ==
    /\ pc = "sendquit"
    /\ calls' = Append(calls, Call("spinnerProgram.Quit", TRUE))
    /\ spinner' = IF spinner = "running" THEN "quitting" ELSE spinner
    /\ pc' = "await"
    /\ UNCHANGED <<obs, frame, interrupted, genErr, flags, repo, extCount, locals, err,
                   exitCode, stderr, ghosts, probe>>

\* AwaitSpinner as it would be without `<-done`.
AwaitSpinnerNoWait ==
    /\ pc = "await"
    /\ spinner' = IF spinner = "finished" THEN "acknowledged" ELSE spinner
    /\ IF genErr # Nil
       THEN /\ err' = APIError("failed to generate commit message", genErr)
            /\ pc' = "returned"
       ELSE /\ err' = Nil
            /\ pc' = IF edit THEN "edit" ELSE "scope"
    /\ UNCHANGED <<obs, frame, interrupted, genErr, flags, repo, extCount, locals, exitCode,
                   stderr, calls, ghosts, probe>>

\* AwaitSpinner as it would be if RunE went on after a failed generation.
AwaitSpinnerIgnoresError ==
    /\ pc = "await"
    /\ spinner = "finished"
    /\ spinner' = "acknowledged"
    /\ err' = Nil
    /\ pc' = IF edit THEN "edit" ELSE "scope"
    /\ UNCHANGED <<obs, frame, interrupted, genErr, flags, repo, extCount, locals, exitCode,
                   stderr, calls, ghosts, probe>>

\* `<-done`, then the handling of the result: the APIError, or on to the edit
\* and the commit.
AwaitSpinner ==
    /\ pc = "await"
    /\ spinner = "finished"
    /\ spinner' = "acknowledged"
    /\ obs' = [obs EXCEPT !.cause = genErr, !.acks = @ + 1]
    /\ IF genErr # Nil
       THEN /\ err' = APIError("failed to generate commit message", genErr)
            /\ pc' = "returned"
       ELSE /\ err' = Nil
            /\ pc' = IF edit THEN "edit" ELSE "scope"
    /\ UNCHANGED <<frame, interrupted, genErr, flags, repo, extCount, locals, exitCode,
                   stderr, calls, ghosts, probe>>

\* --------------------------------------------------------- the indicator

\* The indicator draws while its program runs.
Rendering == spinner \in {"running", "quitting"}

\* spinnerModel.Update, case spinner.TickMsg: the next frame.
SpinnerTick ==
    /\ spinner = "running"
    /\ frame' = 1 - frame
    /\ UNCHANGED <<obs, spinner, interrupted, genErr, flags, repo, extCount, pc, locals,
                   err, exitCode, stderr, calls, ghosts, probe>>

\* SpinnerCtrlC as it would be if the interrupt also cancelled the provider
\* call.
SpinnerCtrlCCancelsCall ==
    /\ spinner = "running"
    /\ pc = "inflight"
    /\ spinner' = "quitting"
    /\ interrupted' = TRUE
    /\ genErr' = ErrorsNew("context canceled")
    /\ calls' = Append(calls, Call("GenerateCommitMessage", FALSE))
    /\ pc' = "senddone"
    /\ UNCHANGED <<obs, frame, flags, repo, extCount, locals, err, exitCode, stderr,
                   ghosts, probe>>

\* spinnerModel.Update, case tea.KeyMsg "ctrl+c": tea.Quit, nothing else.
SpinnerCtrlC ==
    /\ spinner = "running"
    /\ spinner' = "quitting"
    /\ frame' = 0
    /\ interrupted' = TRUE
    /\ UNCHANGED <<obs, genErr, flags, repo, extCount, pc, locals, err, exitCode,
                   stderr, calls, ghosts, probe>>

\* SpinnerQuit as it would be if the goroutine ran the program and ended
\* without `done <- true`.
SpinnerQuitWithoutAck ==
    /\ spinner = "quitting"
    /\ spinner' = "stopped"
    /\ UNCHANGED <<obs, frame, interrupted, genErr, flags, repo, extCount, pc, locals, err,
                   exitCode, stderr, calls, ghosts, probe>>

\* The program handles the quit: Run returns and the goroutine offers
\* `done <- true`.
SpinnerQuit ==
    /\ spinner = "quitting"
    /\ spinner' = "finished"
    /\ UNCHANGED <<obs, frame, interrupted, genErr, flags, repo, extCount, pc, locals, err,
                   exitCode, stderr, calls, ghosts, probe>>

\* EditStep as it would be if RunE went on with the generated message after
\* a failed edit.
EditStepIgnoresFailure ==
    /\ pc = "edit"
    /\ \E os \in EditorWorlds :
          LET r == editCommitMessage(commitMessage, os)
          IN  /\ calls' = Append(calls, Call("editCommitMessage", r.err = Nil))
              /\ editCall' = [made |-> TRUE, message |-> commitMessage,
                              read |-> r.err = Nil,
                              content |-> IF r.err = Nil THEN os.content ELSE <<>>]
              /\ commitMessage' = IF r.err = Nil THEN r.msg ELSE commitMessage
    /\ err' = Nil
    /\ pc' = "scope"
    /\ UNCHANGED <<obs, indicator, genErr, flags, repo, extCount, aiProvider, gitStatusOutput, gitDiffOutput,
                   stagedFiles, final, exitCode, stderr, genCall, captured,
                   repoAtStart, repoAtGenerate, listingAt, repoAtCommit, probe>>

\* EditStep as it would be if a failed edit were tried a second time.
EditStepRetries ==
    /\ pc = "edit"
    /\ \E os \in EditorWorlds :
          LET r == editCommitMessage(commitMessage, os)
              first == \A i \in 1..Len(calls) : calls[i].op # "editCommitMessage"
          IN  /\ calls' = Append(calls, Call("editCommitMessage", r.err = Nil))
              /\ editCall' = [made |-> TRUE, message |-> commitMessage,
                              read |-> r.err = Nil,
                              content |-> IF r.err = Nil THEN os.content ELSE <<>>]
              /\ IF r.err # Nil
                 THEN /\ err' = IF first THEN Nil
                                 ELSE Errorf("failed to edit commit message", r.err)
                      /\ pc' = IF first THEN "edit" ELSE "returned"
                      /\ UNCHANGED commitMessage
                 ELSE /\ commitMessage' = r.msg
                      /\ err' = Nil
                      /\ pc' = "scope"
    /\ UNCHANGED <<obs, indicator, genErr, flags, repo, extCount, aiProvider, gitStatusOutput, gitDiffOutput,
                   stagedFiles, final, exitCode, stderr, genCall, captured,
                   repoAtStart, repoAtGenerate, listingAt, repoAtCommit, probe>>

EditStep ==
    /\ pc = "edit"
    /\ \E os \in EditorWorlds :
          LET r == editCommitMessage(commitMessage, os)
          IN  /\ calls' = Append(calls, Call("editCommitMessage", r.err = Nil))
              /\ editCall' = [made |-> TRUE, message |-> commitMessage,
                              read |-> r.err = Nil,
                              content |-> IF r.err = Nil THEN os.content ELSE <<>>]
              /\ IF r.err # Nil
                 THEN /\ err' = Errorf("failed to edit commit message", r.err)
                      /\ pc' = "returned"
                      /\ UNCHANGED commitMessage
                 ELSE /\ commitMessage' = r.msg
                      /\ err' = Nil
                      /\ pc' = "scope"
    /\ UNCHANGED <<obs, indicator, genErr, flags, repo, extCount, aiProvider, gitStatusOutput, gitDiffOutput,
                   stagedFiles, final, exitCode, stderr, genCall, captured,
                   repoAtStart, repoAtGenerate, listingAt, repoAtCommit, probe>>

\* GitAddUStep as it was before the --staged fix: run whatever the scope.
GitAddUStepAlways ==
    /\ pc = "scope"
    /\ calls' = Append(calls, Call("git add -u", TRUE))
    /\ index' = GitAddU(index, worktree)
    /\ err' = Nil
    /\ pc' = "commit"
    /\ UNCHANGED <<obs, indicator, genErr, flags, head, worktree, extCount, locals, exitCode, stderr, ghosts,
                   probe>>

\* WorkingTree scope: `git add -u` (cmd/generate.go, `if !useStaged`).
GitAddUStep ==
    /\ pc = "scope" /\ ~staged
    /\ \E ok \in BOOLEAN :
          /\ calls' = Append(calls, Call("git add -u", ok))
          /\ IF ~ok
             THEN /\ err' = GitError("git add -u", "failed to stage changes", ExitError)
                  /\ pc' = "returned"
                  /\ Note("cause", ExitError)
                  /\ UNCHANGED index
             ELSE /\ index' = GitAddU(index, worktree)
                  /\ err' = Nil
                  /\ pc' = "commit"
                  /\ UNCHANGED obs
    /\ UNCHANGED <<indicator, genErr, flags, head, worktree, extCount, locals, exitCode, stderr, ghosts,
                   probe>>

\* What RunE makes of the listing's stdout.
ParseStagedFiles(stagedOut) == Fields(TrimSpace(stagedOut))

\* getStagedFiles: the same listing and the same parsing as RunE's; ok says
\* whether the git subprocess succeeded.
getStagedFiles(ok, hd, idx) ==
    IF ~ok THEN [files |-> <<>>, err |-> ExitError]
    ELSE [files |-> Fields(TrimSpace(GitDiffNameOnlyCached(hd, idx))), err |-> Nil]

\* ListStagedStep as it would be if the commit reused the staged files of the
\* start of the run instead of listing them again.
ListStagedStepFromStart ==
    /\ pc = "scope" /\ staged
    /\ calls' = Append(calls, Call("git diff --name-only --cached", TRUE))
    /\ stagedFiles' = ParseStagedFiles(GitDiffNameOnlyCached(repoAtStart.head,
                                                             repoAtStart.index))
    /\ listingAt' = [done |-> TRUE, head |-> head, index |-> index,
                     files |-> stagedFiles']
    /\ err' = Nil
    /\ pc' = "commit"
    /\ UNCHANGED <<obs, indicator, genErr, flags, repo, extCount, aiProvider, gitStatusOutput, gitDiffOutput,
                   commitMessage, final, exitCode, stderr, genCall, captured,
                   repoAtStart, repoAtGenerate, editCall, repoAtCommit, probe>>

\* StagedOnly scope: the index is left alone and the staged files are listed.
ListStagedStep ==
    /\ pc = "scope" /\ staged
    /\ \E ok \in BOOLEAN :
          /\ calls' = Append(calls, Call("git diff --name-only --cached", ok))
          /\ IF ~ok
             THEN /\ err' = GitError("git diff --name-only --cached",
                                     "failed to list staged files", ExitError)
                  /\ pc' = "returned"
                  /\ Note("cause", ExitError)
                  /\ UNCHANGED <<stagedFiles, listingAt>>
             ELSE LET files == ParseStagedFiles(GitDiffNameOnlyCached(head, index))
                  IN  /\ stagedFiles' = files
                      /\ UNCHANGED obs
                      /\ listingAt' = [done |-> TRUE, head |-> head, index |-> index,
                                       files |-> files]
                      /\ IF Len(files) = 0
                         THEN /\ err' = GitError("git diff --name-only --cached",
                                                 "no staged changes to commit",
                                                 ErrGitRepository)
                              /\ pc' = "returned"
                         ELSE /\ err' = Nil
                              /\ pc' = "commit"
    /\ UNCHANGED <<indicator, genErr, flags, repo, extCount, aiProvider, gitStatusOutput, gitDiffOutput,
                   commitMessage, final, exitCode, stderr, genCall, captured,
                   repoAtStart, repoAtGenerate, editCall, repoAtCommit, probe>>

\* FinalCommand as it would be if the path restriction were unconditional.
FinalCommandAlwaysOnly ==
    [run |-> TRUE, m |-> commitMessage, only |-> TRUE, paths |-> stagedFiles]

\* FinalCommand as it would be if the captured list were reordered on the way.
FinalCommandReordersPaths ==
    [run |-> TRUE, m |-> commitMessage, only |-> staged,
     paths |-> [i \in 1..Len(stagedFiles) |-> stagedFiles[Len(stagedFiles) + 1 - i]]]

\* The command line of the final commit.
FinalCommand ==
    IF staged
    THEN [run |-> TRUE, m |-> commitMessage, only |-> TRUE, paths |-> stagedFiles]
    ELSE [run |-> TRUE, m |-> commitMessage, only |-> FALSE, paths |-> <<>>]

\* GitCommitStep as it would be if the staged files were listed again in the
\* very step that commits.
GitCommitStepListsAgain ==
    /\ pc = "commit"
    /\ LET cmd == IF staged
                  THEN [FinalCommand EXCEPT
                          !.paths = ParseStagedFiles(GitDiffNameOnlyCached(head, index))]
                  ELSE FinalCommand
           r == GitCommit(cmd, head, index, worktree)
           ok == r.ok /\ TrimSpace(commitMessage) # <<>>
       IN  /\ final' = cmd
           /\ calls' = Append(calls, Call("git commit", ok))
           /\ repoAtCommit' = [head |-> head, index |-> index,
                               worktree |-> worktree, env |-> TRUE]
           /\ IF ok
              THEN /\ head' = r.head
                   /\ index' = r.index
                   /\ err' = Nil
              ELSE /\ UNCHANGED <<head, index>>
                   /\ err' = GitError("git commit", "failed to commit changes",
                                      ExitError)
    /\ pc' = "returned"
    /\ UNCHANGED <<obs, indicator, genErr, flags, worktree, extCount, aiProvider,
                   gitStatusOutput, gitDiffOutput, commitMessage, stagedFiles,
                   exitCode, stderr, genCall, captured, repoAtStart, repoAtGenerate,
                   editCall, listingAt, probe>>

\* GitCommitStep as it would be if a failed commit took back what `git add -u`
\* had staged (a `git reset`).
GitCommitStepRollsBack ==
    /\ pc = "commit"
    /\ final' = FinalCommand
    /\ \E env \in BOOLEAN :
          LET r == GitCommit(FinalCommand, head, index, worktree)
              ok == env /\ r.ok /\ TrimSpace(commitMessage) # <<>>
          IN  /\ calls' = Append(calls, Call("git commit", ok))
              /\ repoAtCommit' = [head |-> head, index |-> index,
                                  worktree |-> worktree, env |-> env]
              /\ IF ok
                 THEN /\ head' = r.head
                      /\ index' = r.index
                      /\ err' = Nil
                      /\ UNCHANGED obs
                 ELSE /\ head' = head
                      /\ index' = IF staged THEN index ELSE head
                      /\ err' = GitError("git commit", "failed to commit changes",
                                         ExitError)
                      /\ Note("cause", ExitError)
    /\ pc' = "returned"
    /\ UNCHANGED <<indicator, genErr, flags, worktree, extCount, aiProvider, gitStatusOutput,
                   gitDiffOutput, commitMessage, stagedFiles, exitCode, stderr,
                   genCall, captured, repoAtStart, repoAtGenerate, editCall, listingAt,
                   probe>>

\* final.Run().  env says whether git's environment (hooks, identity, locks)
\* lets a commit through; git itself refuses an empty message.
GitCommitStep ==
    /\ pc = "commit"
    /\ final' = FinalCommand
    /\ \E env \in BOOLEAN :
          LET r == GitCommit(FinalCommand, head, index, worktree)
              ok == env /\ r.ok /\ TrimSpace(commitMessage) # <<>>
          IN  /\ calls' = Append(calls, Call("git commit", ok))
              /\ repoAtCommit' = [head |-> head, index |-> index,
                                  worktree |-> worktree, env |-> env]
              /\ IF ok
                 THEN /\ head' = r.head
                      /\ index' = r.index
                      /\ err' = Nil
                      /\ UNCHANGED obs
                 ELSE /\ UNCHANGED <<head, index>>
                      /\ err' = GitError("git commit", "failed to commit changes",
                                         ExitError)
                      /\ Note("cause", ExitError)
    /\ pc' = "returned"
    /\ UNCHANGED <<indicator, genErr, flags, worktree, extCount, aiProvider, gitStatusOutput,
                   gitDiffOutput, commitMessage, stagedFiles, exitCode, stderr,
                   genCall, captured, repoAtStart, repoAtGenerate, editCall, listingAt,
                   probe>>

\* ------------------------------------------------------------------- main

\* MainBranch as it would be if the switch tested the sentinels before the
\* typed classes.
MainBranchSentinelsFirst(e) ==
    IF ErrorsIs(e, ErrNoEditor) THEN "noEditor"
    ELSE IF ErrorsIs(e, ErrGitRepository) THEN "notARepo"
    ELSE IF ErrorsIs(e, ErrNoStagedFiles) THEN "noStagedFiles"
    ELSE IF ErrorsAs(e, "ValidationError") THEN "validation"
    ELSE IF ErrorsAs(e, "APIError") THEN "api"
    ELSE IF ErrorsAs(e, "GitError") THEN "git"
    ELSE IF ErrorsAs(e, "ProviderError") THEN "provider"
    ELSE IF ErrorsAs(e, "ConfigError") THEN "config"
    ELSE "default"

\* The branch of main's switch that runs for a non-nil error: the first case,
\* in the order the switch lists them, whose test succeeds.
MainBranch(e) ==
    IF ErrorsAs(e, "ValidationError") THEN "validation"
    ELSE IF ErrorsAs(e, "APIError") THEN "api"
    ELSE IF ErrorsAs(e, "GitError") THEN "git"
    ELSE IF ErrorsAs(e, "ProviderError") THEN "provider"
    ELSE IF ErrorsAs(e, "ConfigError") THEN "config"
    ELSE IF ErrorsIs(e, ErrNoEditor) THEN "noEditor"
    ELSE IF ErrorsIs(e, ErrGitRepository) THEN "notARepo"
    ELSE IF ErrorsIs(e, ErrNoStagedFiles) THEN "noStagedFiles"
    ELSE "default"

\* What the branch prints after "Error: ...": the sentinels' remediation.
Remediation(branch) ==
    CASE branch = "noEditor" -> <<"Please set the EDITOR or VISUAL environment variable">>
      [] branch = "notARepo" -> <<"Please run this command from within a git repository.">>
      [] branch = "noStagedFiles" -> <<"Stage your changes using 'git add <files>'">>
      [] OTHER -> <<>>

\* BranchExitCode as it would be if the provider branch used the declared
\* authentication code.
BranchExitCodeAuth(branch) == IF branch = "provider" THEN exitAuth ELSE exitError

\* Every branch of the switch exits with exitError.
BranchExitCode(branch) == exitError

\* cmd.Execute, given the error e that PreRunE or RunE returned: who has
\* printed it when Execute is done, and whether Execute ended the process.
\* cobra itself prints the error a command returns (neither command sets
\* SilenceErrors).  Then the two files disagree: Execute of cmd/root.go prints
\* the error and exits with 1, while main calls an Execute that hands the
\* error back.  handsBack says which of the two the build has.
Execute(e, handsBack) ==
    IF e = Nil THEN [printed |-> <<>>, exited |-> FALSE]
    ELSE IF handsBack THEN [printed |-> <<"cobra">>, exited |-> FALSE]
    ELSE [printed |-> <<"cobra", "Execute">>, exited |-> TRUE]

\* main: `if err := cmd.Execute(); err != nil { switch ... }`.
Main ==
    /\ pc = "returned"
    /\ \E handsBack \in BOOLEAN :
          LET x == Execute(err, handsBack)
          IN  IF x.exited
              THEN /\ exitCode' = 1
                   /\ obs' = [obs EXCEPT !.printed = x.printed, !.exitedBy = "Execute"]
                   /\ UNCHANGED stderr
              ELSE IF err # Nil
              THEN /\ stderr' = <<"Error", MainBranch(err)>>
                                 \o Remediation(MainBranch(err))
                   /\ exitCode' = BranchExitCode(MainBranch(err))
                   /\ obs' = [obs EXCEPT !.printed = x.printed \o <<"main">>,
                                         !.exitedBy = "main"]
              ELSE /\ stderr' = stderr
                   /\ exitCode' = exitOK
                   /\ Note("exitedBy", "main")
    /\ pc' = "exited"
    /\ UNCHANGED <<indicator, genErr, flags, repo, extCount, locals, err, calls, ghosts, probe>>

\* ---------------------------------------------------------- specification

Next ==
    \/ PreRunE
    \/ InitProvider
    \/ ValidateModelStep
    \/ GitStatusStep
    \/ GitDiffStep
    \/ GenerateStart
    \/ GenerateReturn
    \/ SendDone
    \/ SendQuit
    \/ AwaitSpinner
    \/ SpinnerTick
    \/ SpinnerCtrlC
    \/ SpinnerQuit
    \/ EditStep
    \/ GitAddUStep
    \/ ListStagedStep
    \/ GitCommitStep
    \/ Main
    \/ External

Spec == Init /\ [][Next]_vars

ScopeSpec == ScopeInit /\ [][Next]_vars

\* The steps of the process itself: main, PreRunE and RunE.
Program ==
    \/ PreRunE
    \/ InitProvider
    \/ ValidateModelStep
    \/ GitStatusStep
    \/ GitDiffStep
    \/ GenerateStart
    \/ GenerateReturn
    \/ SendDone
    \/ SendQuit
    \/ AwaitSpinner
    \/ EditStep
    \/ GitAddUStep
    \/ ListStagedStep
    \/ GitCommitStep
    \/ Main

\* The run under a fair scheduler: the process keeps taking its steps (every
\* call it makes returns), and a program told to quit does quit.
LiveInit == InitWith(ScopeFlags, FewRepos) /\ probe = NoProbe

LiveSpec == LiveInit /\ [][Next]_vars /\ WF_vars(Program) /\ WF_vars(SpinnerQuit)

\* ------------------------------------------------- the providers on their own

\* A provider called directly, as the package's tests call it: with the
\* listing function's answer chosen freely (the tests replace the function).
ProbeModels ==
    RawNames \cup {TrimPrefixModels(n) : n \in RawNames}
    \cup {DefaultGroqModel, UnknownModel, <<>>}

ProbeListings ==
    {ListFailed, groqListModelsFunc} \cup {Listed(l) : l \in BoundedSeq(RawNames, MaxRaw)}

ProbeInputs ==
    { [stage |-> "input", prov |-> pv, listing |-> l, model |-> m,
       listed |-> Listed(<<>>), verdict |-> Nil] :
         pv \in {"gemini", "groq"}, l \in ProbeListings, m \in ProbeModels }
    \cup
    { [stage |-> "input", prov |-> "groq-inline", listing |-> groqListModelsFunc,
       model |-> m, listed |-> Listed(<<>>), verdict |-> Nil] : m \in ProbeModels }

ProviderInit ==
    /\ InitWith({f \in ScopeFlags : ~f.staged /\ ~f.edit},
                {RepoOf(Clean, Clean, Clean)})
    /\ probe \in ProbeInputs

ProbeListModels ==
    /\ probe.stage = "input"
    /\ probe' = [probe EXCEPT !.stage = "listed",
                              !.listed = ListModels(probe.prov, probe.listing)]
    /\ UNCHANGED <<obs, indicator, genErr, flags, repo, extCount, pc, locals, err, exitCode, stderr, calls,
                   ghosts>>

ProbeValidateModel ==
    /\ probe.stage = "listed"
    /\ probe' = [probe EXCEPT !.stage = "validated",
                              !.verdict = ValidateModel(probe.prov, probe.listing,
                                                        probe.model)]
    /\ UNCHANGED <<obs, indicator, genErr, flags, repo, extCount, pc, locals, err, exitCode, stderr, calls,
                   ghosts>>

ProviderNext == ProbeListModels \/ ProbeValidateModel

ProviderSpec == ProviderInit /\ [][ProviderNext]_vars

\* --------------------------------------------------- the editor on its own

\* editCommitMessage called directly, over every environment: each failing
\* step, EDITOR and VISUAL set or not, every set of fallback editors on the
\* path, and a blank or a written file.
EditProbeWorlds ==
    [fails : {"none", "create", "write", "close", "run", "read"},
     EDITOR : {"", "ed"}, VISUAL : {"", "vis"},
     path : SUBSET Range(FallbackEditors),
     content : {<<>>, <<" ", "\n">>, EditedText}]

EditProbeInputs ==
    { [stage |-> "edit", message |-> m, os |-> w,
       result |-> [msg |-> <<>>, err |-> Nil, ran |-> "", tmp |-> "none"]] :
         m \in {<<>>, GeneratedText}, w \in EditProbeWorlds }

EditorInit ==
    /\ InitWith({f \in ScopeFlags : ~f.staged /\ f.edit},
                {RepoOf(Clean, Clean, Clean)})
    /\ probe \in EditProbeInputs

ProbeEditCommitMessage ==
    /\ probe.stage = "edit"
    /\ probe' = [probe EXCEPT !.stage = "edited",
                              !.result = editCommitMessage(probe.message, probe.os)]
    /\ UNCHANGED <<obs, indicator, genErr, flags, repo, extCount, pc, locals, err, exitCode, stderr, calls,
                   ghosts>>

EditorNext == ProbeEditCommitMessage

EditorSpec == EditorInit /\ [][EditorNext]_vars

\* ------------------------------------------ the indicator's model on its own

\* The messages a bubbletea program can hand to Update: keys, the spinner's
\* tick, strings sent with Program.Send, and messages of other types.
CtrlCMsg == [type |-> "tea.KeyMsg", value |-> "ctrl+c"]
DoneMsg == [type |-> "string", value |-> "done"]
TickMsg == [type |-> "spinner.TickMsg", value |-> ""]
\* A tick addressed to another spinner or carrying an old tag: the spinner's
\* own Update drops it and returns no command.
StaleTickMsg == [type |-> "spinner.TickMsg", value |-> "stale"]

SpinnerMsgs ==
    { CtrlCMsg, [type |-> "tea.KeyMsg", value |-> "q"], TickMsg, StaleTickMsg, DoneMsg,
      [type |-> "string", value |-> "stop"],
      [type |-> "tea.WindowSizeMsg", value |-> ""] }

\* newSpinnerModel: done is the zero value.
newSpinnerModel(message) == [spinner |-> 0, message |-> message, done |-> FALSE]

\* SpinnerUpdate as it would be if any string message counted as "done".
SpinnerUpdateAnyString(m, msg) ==
    IF msg.type = "tea.KeyMsg" /\ msg.value = "ctrl+c"
    THEN [m |-> m, cmd |-> "tea.Quit"]
    ELSE IF msg.type = "spinner.TickMsg"
    THEN IF msg.value = "stale"
         THEN [m |-> m, cmd |-> "nil"]
         ELSE [m |-> [m EXCEPT !.spinner = 1 - @], cmd |-> "spinner.Tick"]
    ELSE IF msg.type = "string"
    THEN [m |-> [m EXCEPT !.done = TRUE], cmd |-> "tea.Quit"]
    ELSE [m |-> m, cmd |-> "nil"]

\* spinnerModel.Update: the model and the command it returns.
SpinnerUpdate(m, msg) ==
    IF msg.type = "tea.KeyMsg" /\ msg.value = "ctrl+c"
    THEN [m |-> m, cmd |-> "tea.Quit"]
    ELSE IF msg.type = "spinner.TickMsg"
    THEN IF msg.value = "stale"
         THEN [m |-> m, cmd |-> "nil"]
         ELSE [m |-> [m EXCEPT !.spinner = 1 - @], cmd |-> "spinner.Tick"]
    ELSE IF msg.type = "string" /\ msg.value = "done"
    THEN [m |-> [m EXCEPT !.done = TRUE], cmd |-> "tea.Quit"]
    ELSE [m |-> m, cmd |-> "nil"]

\* spinnerModel.View
SpinnerView(m) == IF m.done THEN <<>> ELSE <<m.spinner, " ", m.message>>

\* The model as RunE makes it, before any message; handled is the messages
\* Update has been given since.
SpinnerInit ==
    /\ InitWith({f \in ScopeFlags : ~f.staged /\ ~f.edit},
                {RepoOf(Clean, Clean, Clean)})
    /\ probe = [stage |-> "spinner",
                m |-> newSpinnerModel("Generating commit message..."),
                cmd |-> "spinner.Tick",
                view |-> SpinnerView(newSpinnerModel("Generating commit message...")),
                handled |-> <<>>]

ProbeSpinnerUpdate ==
    /\ probe.stage = "spinner"
    /\ Len(probe.handled) < MaxMsgs
    /\ \E msg \in SpinnerMsgs :
          LET r == SpinnerUpdate(probe.m, msg)
          IN  probe' = [probe EXCEPT !.m = r.m, !.cmd = r.cmd,
                                    !.view = SpinnerView(r.m),
                                    !.handled = Append(@, msg)]
    /\ UNCHANGED <<obs, indicator, genErr, flags, repo, extCount, pc, locals, err, exitCode, stderr, calls,
                   ghosts>>

SpinnerNext == ProbeSpinnerUpdate

SpinnerSpec == SpinnerInit /\ [][SpinnerNext]_vars

\* ------------------------------------------------ main's switch on its own

\* Errors whose chain ends with them: the sentinels, another errors.New
\* value, the two classes without an Err field, and the wrapping classes
\* with a nil Err.
ChainEnds ==
    { ErrNoEditor, ErrGitRepository, ErrNoStagedFiles, ErrorsNew("exit status 1"),
      ValidationError("model", "validation failed", "help"),
      ConfigError("provider", "bad configuration"),
      GitError("git commit", "failed", Nil),
      APIError("failed", Nil),
      ProviderError("groq", "failed", Nil) }

\* One more layer around e, of each type that can wrap.
Wrappings(e) ==
    { GitError("git status", "failed", e), APIError("failed", e),
      ProviderError("gemini", "failed", e), Errorf("failed", e) }

\* Every chain of at most n layers.
RECURSIVE ChainsUpTo(_)
ChainsUpTo(n) ==
    IF n <= 1 THEN ChainEnds
    ELSE LET inner == ChainsUpTo(n - 1)
         IN  inner \cup UNION { Wrappings(e) : e \in inner }

\* cmd.Execute has handed main an error.
DispatchInit ==
    /\ InitWith({f \in ScopeFlags : ~f.staged /\ ~f.edit},
                {RepoOf(Clean, Clean, Clean)})
    /\ \E e \in ChainsUpTo(MaxChain) :
          probe = [stage |-> "dispatch", err |-> e, ran |-> <<>>, out |-> <<>>,
                   code |-> exitOK]

\* The switch of main on probe.err: the branches that ran, what was printed,
\* and the code given to os.Exit.
ProbeMain ==
    /\ probe.stage = "dispatch"
    /\ probe.ran = <<>>
    /\ LET branch == MainBranch(probe.err)
       IN  probe' = [probe EXCEPT !.ran = <<branch>>,
                                 !.out = <<"Error", branch>> \o Remediation(branch),
                                 !.code = BranchExitCode(branch)]
    /\ UNCHANGED <<obs, indicator, genErr, flags, repo, extCount, pc, locals, err, exitCode, stderr, calls,
                   ghosts>>

DispatchNext == ProbeMain

DispatchSpec == DispatchInit /\ [][DispatchNext]_vars

\* ================================================================= claims

\* ---- providers (checked under ProviderSpec)

ProbeListed == probe.stage \in {"listed", "validated"}
ProbeValidated == probe.stage = "validated"

StrippedNames(raw) == [i \in 1..Len(raw) |-> TrimPrefixModels(raw[i])]

\* C7: for every raw model list the Gemini backend returns, ListModels returns
\* the names with one leading "models/" stripped that start with "gemini-", in
\* backend order; when there is none it returns all the stripped names; so the
\* result is empty only if the raw list is.
C7_GeminiListModelsFilterOrFallback ==
    (ProbeListed /\ probe.prov = "gemini" /\ probe.listing.err = Nil) =>
        LET raw == probe.listing.models
            matching == SelectSeq(StrippedNames(raw), MatchesGeminiPrefix)
        IN  /\ probe.listed.err = Nil
            /\ probe.listed.models =
                   IF matching = <<>> THEN StrippedNames(raw) ELSE matching
            /\ (probe.listed.models = <<>> => raw = <<>>)

\* C7 witness: a non-empty raw list without a single "gemini-" name was
\* listed, and came back whole.
C7_Witness ==
    /\ ProbeListed /\ probe.prov = "gemini" /\ probe.listing.err = Nil
    /\ Len(probe.listing.models) = 2
    /\ \A i \in 1..2 : ~MatchesGeminiPrefix(TrimPrefixModels(probe.listing.models[i]))
    /\ Len(probe.listed.models) = 2

\* C8: for each provider, when the listing succeeds, ValidateModel(m) succeeds
\* exactly when m is an element of the list ListModels returns.
C8_ValidateModelIffListed ==
    (ProbeValidated /\ probe.listed.err = Nil) =>
        (probe.verdict = Nil <=> probe.model \in Range(probe.listed.models))

\* C8 witness: Gemini accepted a model that is the second of two listed names.
C8_Witness ==
    /\ ProbeValidated /\ probe.prov = "gemini" /\ probe.listed.err = Nil
    /\ Len(probe.listed.models) = 2
    /\ probe.model = probe.listed.models[2]
    /\ probe.model # probe.listed.models[1]
    /\ probe.verdict = Nil

\* C9: for each provider, when the listing fails, ValidateModel returns a
\* non-nil error that wraps the listing's error, whatever the model.  (The
\* inline Groq listing of providers/groq.go cannot fail.)
C9_ValidateModelWrapsListError ==
    /\ (ProbeValidated /\ probe.listed.err # Nil) =>
          /\ probe.verdict # Nil
          /\ Wraps(probe.verdict, probe.listing.err)
          /\ Wraps(probe.verdict, ListError)
    /\ (ProbeListed /\ probe.prov = "groq-inline") => probe.listed.err = Nil

\* C9 witness: Groq's listing failed while the default model, which the static
\* list holds, was validated.
C9_Witness ==
    /\ ProbeValidated /\ probe.prov = "groq" /\ probe.listing.err # Nil
    /\ probe.model = DefaultGroqModel
    /\ Contains(GroqStaticModels, probe.model)
    /\ probe.verdict # Nil

\* ------------------------------------------------ claims about the run

Made(op) == \E i \in 1..Len(calls) : calls[i].op = op
Succeeded(op) == \E i \in 1..Len(calls) : calls[i].op = op /\ calls[i].ok
Failed(op) == \E i \in 1..Len(calls) : calls[i].op = op /\ ~calls[i].ok
Count(op) == Cardinality({i \in 1..Len(calls) : calls[i].op = op})
Before(op1, op2) ==
    \A i, j \in 1..Len(calls) : calls[i].op = op1 /\ calls[j].op = op2 => i < j
Finished == pc \in {"returned", "exited"}

\* The names git's staged listing prints for the repository the listing saw,
\* as the whitespace-separated list RunE makes of them.
ListedAtCommitTime ==
    Fields(TrimSpace(GitDiffNameOnlyCached(listingAt.head, listingAt.index)))

\* The files whose HEAD content the final commit changed.
Committed == {f \in Files : head[f] # repoAtCommit.head[f]}

\* C1: under --staged the staged files are listed once, after generation and
\* after editing; the path list of the commit is the result of that listing
\* (of the index as it is then, not as it was earlier); and when that listing
\* is empty the run ends with the Git error "no staged changes to commit" and
\* the commit is never invoked.
C1_CommitPathsAreCommitTimeListing ==
    staged =>
      /\ Count("git diff --name-only --cached") <= 1
      /\ Before("GenerateCommitMessage", "git diff --name-only --cached")
      /\ Before("editCommitMessage", "git diff --name-only --cached")
      /\ Before("git diff --name-only --cached", "git commit")
      /\ final.run =>
            /\ final.only
            /\ listingAt.done
            /\ final.paths = ListedAtCommitTime
            /\ final.paths # <<>>
      /\ (listingAt.done /\ ListedAtCommitTime = <<>>) =>
            /\ Finished
            /\ err # Nil /\ err[1].type = "GitError"
            /\ err[1].msg = "no staged changes to commit"
            /\ ~final.run
            /\ ~Made("git commit")

\* C1 witness: the commit ran under --staged, after an edit, with the paths of
\* an index that changed after generation had started.
C1_Witness ==
    /\ staged /\ final.run /\ final.only
    /\ Made("editCommitMessage")
    /\ listingAt.index # repoAtGenerate.index
    /\ final.paths = ListedAtCommitTime

\* C2: when exactly one file is staged at the start of a --staged run, nothing
\* else is staged meanwhile, and another tracked file is modified in the
\* working tree after generation has started, then a run whose commit git's
\* environment lets through, with a non-blank message, exits with code 0 and
\* its commit changes the originally staged file and no other.
C2_StagedOnlyCommitsOnlyTheStagedFile ==
    \A f \in Files :
      ( /\ staged /\ pc = "exited" /\ final.run
        /\ Changed(repoAtStart.head, repoAtStart.index) = <<f>>
        /\ repoAtCommit.head = repoAtStart.head
        /\ repoAtCommit.index = repoAtStart.index
        /\ repoAtCommit.worktree[f] = repoAtStart.worktree[f]
        /\ repoAtGenerate.worktree = repoAtStart.worktree
        /\ \E g \in Files \ {f} :
              repoAtCommit.worktree[g] # repoAtGenerate.worktree[g]
        /\ repoAtCommit.env
        /\ TrimSpace(final.m) # <<>> )
      => /\ exitCode = exitOK
         /\ Committed = {f}

\* C3: under --staged no step of the program changes the index before the
\* commit is invoked, and `git add -u` is never run.
C3_StagedOnlyLeavesIndexAlone ==
    [][ (staged /\ extCount' = extCount /\ pc # "commit")
          => (index' = index /\ ~Made("git add -u")') ]_vars

\* C3 witness: a --staged run committed and exited with code 0.
C3_Witness ==
    /\ staged /\ pc = "exited" /\ exitCode = exitOK
    /\ Succeeded("git commit")
    /\ ~Made("git add -u")

\* C4: without --staged `git add -u` runs at most once and before the commit;
\* the commit is only invoked after `git add -u` succeeded, as
\* `git commit -m <message>` with no path restriction; a run that ends without
\* an error ran both, each once, and exits with code 0; and when `git add -u`
\* fails the commit is never invoked.
C4_WorkingTreeAddsThenCommitsUnrestricted ==
    ~staged =>
      /\ Count("git add -u") <= 1
      /\ Count("git commit") <= 1
      /\ Before("git add -u", "git commit")
      /\ ~Made("git diff --name-only --cached")
      /\ Made("git commit") => Succeeded("git add -u")
      /\ Failed("git add -u") =>
            /\ Finished /\ ~final.run /\ ~Made("git commit")
            /\ err # Nil /\ err[1].type = "GitError"
            /\ pc = "exited" => exitCode = exitError
      /\ final.run =>
            /\ ~final.only /\ final.paths = <<>>
            /\ final.m = commitMessage
      /\ (pc = "exited" /\ err = Nil) =>
            /\ exitCode = exitOK
            /\ Succeeded("git add -u") /\ Succeeded("git commit")

\* C4 witness: a run without --staged staged a working-tree change with
\* `git add -u`, committed it and exited with code 0.
C4_Witness ==
    /\ ~staged /\ pc = "exited" /\ exitCode = exitOK
    /\ Succeeded("git add -u") /\ Succeeded("git commit")
    /\ repoAtCommit.index # repoAtStart.index
    /\ head = repoAtCommit.index

\* C5: when `git status` prints nothing but whitespace the run fails with the
\* Git error "no changes detected" and exit code 1, and no provider call
\* (model validation or generation) has been made.
C5_NoChangesBeforeAnyProviderCall ==
    (Succeeded("git status") /\ TrimSpace(captured.status) = <<>>) =>
      /\ Finished
      /\ err # Nil /\ err[1].type = "GitError" /\ err[1].msg = "no changes detected"
      /\ pc = "exited" => exitCode = exitError
      /\ ~Made("ValidateModel")
      /\ ~Made("GenerateCommitMessage")

\* C6: the model is validated at most once; when the validation fails the run
\* ends there with a Validation error on the field "model" whose help names
\* the model-listing command, exits with code 1, and neither `git add -u` nor
\* `git commit` is ever run.
C6_InvalidModelFailsOnceBeforeGit ==
    /\ Count("ValidateModel") <= 1
    /\ Failed("ValidateModel") =>
          /\ Finished
          /\ Len(calls) = 1
          /\ err # Nil /\ err[1].type = "ValidationError" /\ err[1].field = "model"
          /\ err[1].help =
                "run 'goco models --provider <provider>' to list available models"
          /\ pc = "exited" => exitCode = exitError
          /\ ~Made("git add -u") /\ ~Made("git commit") /\ ~final.run
          /\ head = repoAtStart.head

\* C6 witness: Groq was asked for a model its list does not hold and the run
\* exited.
C6_Witness ==
    /\ pc = "exited" /\ exitCode = exitError
    /\ aiProvider # NoProvider /\ aiProvider.kind = "groq"
    /\ model = UnknownModel
    /\ Failed("ValidateModel")

\* C10: the status and the diff handed to GenerateCommitMessage, and put into
\* the provider's prompt, are the texts `git status` and `git diff` wrote,
\* unchanged, and the custom instructions are the flag's value.
C10_GenerationGetsCapturedTexts ==
    genCall.made =>
      /\ genCall.status = captured.status
      /\ genCall.diff = captured.diff
      /\ genCall.custom = customInstructions
      /\ genCall.request.prompt.status = captured.status
      /\ genCall.request.prompt.diff = captured.diff
      /\ genCall.request.prompt.additional =
            (IF customInstructions = "" THEN <<>> ELSE <<customInstructions>>)

\* C10 witness: generation was called with a non-empty diff and custom
\* instructions, for a repository whose diff had changed since the capture.
C10_Witness ==
    /\ genCall.made
    /\ genCall.diff # <<>>
    /\ genCall.custom # ""
    /\ GitDiff(staged, head, index, worktree) # captured.diff

\* ---- the editor

\* The editor the resolution order names for an environment, "" when none.
EditorByPrecedence(os) ==
    IF os.EDITOR # "" THEN os.EDITOR
    ELSE IF os.VISUAL # "" THEN os.VISUAL
    ELSE IF "vim" \in os.path THEN "vim"
    ELSE IF "nano" \in os.path THEN "nano"
    ELSE IF "vi" \in os.path THEN "vi"
    ELSE ""

\* C11: once the temporary file is written, editCommitMessage starts EDITOR
\* when it is non-empty, whatever VISUAL and the path hold; otherwise VISUAL
\* when non-empty; otherwise the first of vim, nano, vi on the path; and when
\* none of these resolves it starts no process and returns an error that
\* wraps ErrNoEditor.
C11_EditorPrecedence ==
    (probe.stage = "edited" /\ probe.os.fails \notin {"create", "write", "close"}) =>
      IF EditorByPrecedence(probe.os) # ""
      THEN /\ probe.result.ran = EditorByPrecedence(probe.os)
           /\ ~ErrorsIs(probe.result.err, ErrNoEditor)
      ELSE /\ probe.result.ran = ""
           /\ probe.result.err # Nil
           /\ ErrorsIs(probe.result.err, ErrNoEditor)
           /\ probe.result.msg = <<>>

\* C11 witness: EDITOR was started although VISUAL was set and all three
\* fallback editors were on the path.
C11_Witness ==
    /\ probe.stage = "edited"
    /\ probe.os.EDITOR = "ed" /\ probe.os.VISUAL = "vis"
    /\ probe.os.path = {"vim", "nano", "vi"}
    /\ probe.result.ran = "ed" /\ probe.result.err = Nil

\* C12: when the editor has exited successfully and the file read back is
\* blank, editCommitMessage succeeds and the message stays the one it was
\* given; a commit that follows carries that message.
C12_BlankEditKeepsMessage ==
    (editCall.made /\ editCall.read /\ TrimSpace(editCall.content) = <<>>) =>
      /\ Succeeded("editCommitMessage")
      /\ commitMessage = editCall.message
      /\ final.run => final.m = editCall.message

\* C12 witness: the file came back as whitespace and the generated message was
\* committed.
C12_Witness ==
    /\ editCall.made /\ editCall.read
    /\ editCall.content = <<" ", "\n">>
    /\ editCall.message = GeneratedText
    /\ Succeeded("git commit")
    /\ final.m = GeneratedText

\* ---- exit codes

\* An error of every class and every sentinel, bare and wrapped.
ErrorSamples ==
    { ValidationError("model", "validation failed for model", ""),
      ConfigError("provider", "bad configuration"),
      ProviderError("groq", "failed to initialize provider", ErrorsNew("cause")),
      GitError("git commit", "failed to commit changes", ExitError),
      GitError("git status", "no changes detected", ErrGitRepository),
      APIError("failed to generate commit message", ErrorsNew("cause")),
      ErrNoEditor, ErrGitRepository, ErrNoStagedFiles,
      Errorf("failed to edit commit message", Errorf("failed to find editor", ErrNoEditor)),
      Errorf("wrapped", ErrGitRepository), Errorf("wrapped", ErrNoStagedFiles),
      Errorf("failed to get API key", ErrorsNew("user aborted")),
      ErrorsNew("unknown flag") }

\* C13: the process exits with 0 exactly when the run returned no error and
\* with 1 for every error, whatever its class or sentinel; 2, 4 and 8 are
\* never the exit code.
C13_ExitCodeIsZeroOrOne ==
    /\ pc = "exited" =>
          /\ exitCode = exitOK <=> err = Nil
          /\ err # Nil => exitCode = exitError
          /\ exitCode \notin {exitCancel, exitAuth, exitPending}
    /\ \A e \in ErrorSamples : BranchExitCode(MainBranch(e)) = exitError

\* C13 witness: a run ended by a provider error has exited with code 1.
C13_Witness ==
    /\ pc = "exited"
    /\ MainBranch(err) = "provider"
    /\ exitCode = exitError

\* ---- the staged-file list

\* C14: the staged-file list, as getStagedFiles returns it and as RunE makes
\* it, is exactly the paths whose index content differs from HEAD, one
\* element per path, in git's order, for every path name, names containing
\* whitespace included.
C14_StagedFilesAreTheStagedPaths ==
    listingAt.done =>
      /\ stagedFiles = Changed(listingAt.head, listingAt.index)
      /\ getStagedFiles(TRUE, listingAt.head, listingAt.index).files =
            Changed(listingAt.head, listingAt.index)

\* ---- the indicator

\* The result of the provider call is being handled: the call has returned and
\* the run is past `<-done`.
HandlingBegun == genCall.made /\ pc \notin {"senddone", "sendquit", "await"}

\* C15: once the handling of the provider's result has begun (the APIError is
\* built, or the run has gone on to the edit, the staging and the commit) the
\* indicator has acknowledged its stop and is not rendering, whether the call
\* succeeded or failed.
C15_HandlingOnlyAfterIndicatorStopped ==
    /\ HandlingBegun => (spinner = "acknowledged" /\ ~Rendering)
    /\ (err # Nil /\ err[1].type = "APIError") => spinner = "acknowledged"
    /\ pc \in {"edit", "scope", "commit"} => spinner = "acknowledged"

\* C15 witness: the provider call failed and the APIError was built after the
\* indicator, never interrupted, had acknowledged its stop.
C15_Witness ==
    /\ pc = "returned"
    /\ err # Nil /\ err[1].type = "APIError"
    /\ Failed("GenerateCommitMessage")
    /\ spinner = "acknowledged" /\ ~interrupted

\* C16: "done" and the quit are sent to the indicator only after
\* GenerateCommitMessage has returned; while the call is in flight neither has
\* been sent.
C16_StopSentOnlyAfterCallReturned ==
    /\ pc \in {"generate", "inflight"} =>
          (~Made("spinnerProgram.Send") /\ ~Made("spinnerProgram.Quit"))
    /\ (Made("spinnerProgram.Send") \/ Made("spinnerProgram.Quit")) => genCall.made
    /\ Before("GenerateCommitMessage", "spinnerProgram.Send")
    /\ Before("spinnerProgram.Send", "spinnerProgram.Quit")

\* C16 witness: the call failed and "done" and the quit were sent after it.
C16_Witness ==
    /\ pc = "await"
    /\ Failed("GenerateCommitMessage")
    /\ Made("spinnerProgram.Send") /\ Made("spinnerProgram.Quit")

\* C17: the step in which the indicator handles ctrl+c changes nothing of the
\* run but the indicator; a provider call in flight at that moment still
\* returns; and the interrupted run goes on to its exit.
C17_InterruptOnlyStopsIndicator ==
    /\ [][ (interrupted' /\ ~interrupted) =>
             UNCHANGED <<pc, genErr, locals, err, exitCode, calls, genCall, repo>> ]_vars
    /\ (interrupted /\ pc = "inflight") ~> genCall.made
    /\ interrupted ~> (pc = "exited")

\* C17 witness: the indicator was interrupted while the call was in flight and
\* the run went on to commit and exit with code 0.
C17_Witness ==
    /\ interrupted
    /\ pc = "exited" /\ exitCode = exitOK
    /\ Succeeded("GenerateCommitMessage") /\ Succeeded("git commit")

\* ---- the listing and the commit

\* The paths staged when the commit executes.
StagedAtCommit == {f \in Files : repoAtCommit.index[f] # repoAtCommit.head[f]}

\* C18: under --staged nothing closes the window between the listing and the
\* commit: when the index has changed in between, the commit still runs, with
\* the paths of the index the listing saw.
C18_ListingToCommitWindowOpen ==
    (staged /\ final.run /\ repoAtCommit.index # listingAt.index) =>
      /\ listingAt.done
      /\ final.paths =
            Fields(TrimSpace(GitDiffNameOnlyCached(listingAt.head, listingAt.index)))

\* C18 witness: the commit ran under --staged with a path list that is not the
\* set of paths staged at that moment (none of them a name with whitespace).
C18_Witness ==
    /\ staged /\ final.run
    /\ repoAtCommit.index # listingAt.index
    /\ "a b" \notin StagedAtCommit
    /\ listingAt.index["a b"] = listingAt.head["a b"]
    /\ Range(final.paths) # StagedAtCommit

\* C19: under --staged the staged-file list is captured at most once in a run,
\* it is not touched after its capture, and the final commit is given that
\* list, element for element.
C19_StagedListCapturedOnceUsedVerbatim ==
    staged =>
      /\ Count("git diff --name-only --cached") <= 1
      /\ ~listingAt.done => stagedFiles = <<>>
      /\ listingAt.done => stagedFiles = listingAt.files
      /\ final.run => (listingAt.done /\ final.paths = listingAt.files)

\* C19 witness: two files were staged at the listing and the commit was given
\* both, in the listing's order.
C19_Witness ==
    /\ staged /\ final.run
    /\ Changed(listingAt.head, listingAt.index) = <<"a", "b">>
    /\ final.paths = <<"a", "b">>
    /\ Count("git diff --name-only --cached") = 1

\* ---- the order of the stages

\* C20: the stages run in the order git status, git diff, model validation,
\* generation, editing, scope resolution, commit, and none starts unless the
\* one before it has completed successfully.
C20_StagesInOrder ==
    /\ Before("git status", "git diff")
    /\ Before("git diff", "ValidateModel")
    /\ Before("ValidateModel", "GenerateCommitMessage")
    /\ Before("GenerateCommitMessage", "editCommitMessage")
    /\ Before("editCommitMessage", "git add -u")
    /\ Before("editCommitMessage", "git diff --name-only --cached")
    /\ Before("git add -u", "git commit")
    /\ Before("git diff --name-only --cached", "git commit")
    /\ Made("git diff") => Succeeded("git status")
    /\ Made("ValidateModel") => Succeeded("git diff")
    /\ Made("GenerateCommitMessage") => Succeeded("ValidateModel")
    /\ Made("editCommitMessage") => Succeeded("GenerateCommitMessage")
    /\ (Made("git add -u") \/ Made("git diff --name-only --cached")) =>
          /\ Succeeded("GenerateCommitMessage")
          /\ edit => Succeeded("editCommitMessage")
    /\ Made("git commit") =>
          (Succeeded("git add -u") \/ Succeeded("git diff --name-only --cached"))

\* ---- the error taxonomy and its propagation

\* An error main can tell apart: one of the five classes, or one of the three
\* sentinels somewhere in its chain.
Classified(e) ==
    \/ \E t \in {"ValidationError", "ConfigError", "ProviderError", "GitError",
                  "APIError"} : ErrorsAs(e, t)
    \/ \E sentinel \in {ErrNoEditor, ErrGitRepository, ErrNoStagedFiles} :
          ErrorsIs(e, sentinel)

\* C21: every error a stage of the run returns is one of the classes
\* Validation, Config, Provider, Git, API, or wraps one of the sentinels
\* NoEditor, NotARepo, NoStagedFiles; no stage returns an unclassified error.
C21_EveryReturnedErrorIsClassified ==
    (pc = "returned" /\ err # Nil) => Classified(err)

\* C22: no layer below the top-level handler prints an error or ends the
\* process: on every failing run the error is presented by exactly one
\* component, main, and it is main that selects the exit code.
C22_OnlyMainPresentsAndExits ==
    (pc = "exited" /\ err # Nil) =>
        (obs.printed = <<"main">> /\ obs.exitedBy = "main")

\* The run has failed because no editor could be resolved.
NoEditorResolved == Failed("editCommitMessage") /\ ErrorsIs(err, ErrNoEditor)

\* The run has failed because `git status` was started outside a repository.
RunOutsideRepository == Failed("git status") /\ obs.notARepo

\* The run has failed because the StagedOnly listing came back empty.
NothingStagedAtCommitTime ==
    staged /\ listingAt.done /\ listingAt.files = <<>> /\ err # Nil

\* C23: when a run fails because no editor can be resolved, because it is
\* outside a git repository, or because nothing is staged at commit time in
\* StagedOnly scope, the top-level handler prints that condition's
\* remediation text after the error message.
C23_SentinelConditionsGetRemediation ==
    pc = "exited" =>
        /\ NoEditorResolved =>
              \E i \in 1..Len(stderr) : <<stderr[i]>> = Remediation("noEditor")
        /\ RunOutsideRepository =>
              \E i \in 1..Len(stderr) : <<stderr[i]>> = Remediation("notARepo")
        /\ NothingStagedAtCommitTime =>
              \E i \in 1..Len(stderr) : <<stderr[i]>> = Remediation("noStagedFiles")

\* C24: a classified error (Validation, Provider, Git, API) returned for a
\* failure that has an underlying cause (a failed subprocess, provider
\* construction, model listing or validation, or generation) carries that
\* cause in its chain, where unwrapping finds it.
C24_ClassifiedErrorsCarryTheCause ==
    ( /\ pc = "returned" /\ err # Nil /\ obs.cause # Nil
      /\ err[1].type \in {"ValidationError", "ProviderError", "GitError", "APIError"} )
    => Wraps(err, obs.cause)

\* ---- no retries

\* The calls the run makes once each: the provider's, the editor, the writes.
OnceOnly ==
    {"ValidateModel", "GenerateCommitMessage", "editCommitMessage", "git add -u",
     "git commit"}

\* err is the failure RunE returns for a failed call of op.
FailureOf(op) ==
    CASE op = "ValidateModel" ->
           err[1].type = "ValidationError" /\ err[1].field = "model"
      [] op = "GenerateCommitMessage" ->
           err[1].type = "APIError" /\ Wraps(err, genErr)
      [] op = "editCommitMessage" ->
           err[1].msg = "failed to edit commit message"
      [] OTHER -> err[1].type = "GitError" /\ err[1].field = op

\* C25: nothing is retried: model validation, the generation call, the
\* editor, `git add -u` and `git commit` are each invoked at most once in a
\* run, and the first failure of any of them ends the run with that failure.
C25_NothingIsRetried ==
    /\ \A op \in OnceOnly : Count(op) <= 1
    /\ \A i \in 1..Len(calls) :
          (calls[i].op \in OnceOnly /\ ~calls[i].ok) =>
             /\ \A j \in (i + 1)..Len(calls) :
                   calls[j].op \in {"spinnerProgram.Send", "spinnerProgram.Quit"}
             /\ pc \notin {"senddone", "sendquit", "await"} =>
                   (Finished /\ err # Nil /\ FailureOf(calls[i].op))

\* A run that got as far as the commit, which failed, once.
C25_Witness ==
    /\ pc = "exited"
    /\ Failed("git commit") /\ Count("git commit") = 1
    /\ Succeeded("editCommitMessage") /\ Succeeded("git add -u")

\* ---- the effective model

\* The model the run is to use: --model when given, else the provider's
\* default.
EffectiveModel ==
    IF obs.flagModel # <<>> THEN obs.flagModel
    ELSE IF aiProvider.kind = "gemini" THEN <<"gemini-", "2.5-flash">>
    ELSE <<"llama-3.3-70b-versatile">>

\* C26: the effective model is --model when given, else gemini-2.5-flash for
\* Gemini and llama-3.3-70b-versatile for Groq, and the provider is
\* constructed with it, ValidateModel is given it and GenerateCommitMessage
\* requests it: the same name in every run.
C26_OneEffectiveModel ==
    aiProvider # NoProvider =>
        /\ aiProvider.model = EffectiveModel
        /\ Made("ValidateModel") => obs.validated = EffectiveModel
        /\ genCall.made => genCall.request.model = EffectiveModel

\* A run with --model whose generation call has been made.
C26_Witness ==
    /\ obs.flagModel # <<>>
    /\ aiProvider.kind = "gemini"
    /\ Succeeded("ValidateModel")
    /\ genCall.made /\ genCall.request.model = obs.flagModel

\* ---- generation results

\* C27: for both providers GenerateCommitMessage returns an error, and no
\* message, whenever the backend call fails or the backend's response is
\* empty; it never returns success with an empty message.
C27_NoSuccessWithEmptyMessage ==
    genCall.made =>
        /\ (genCall.resp.err # Nil \/ genCall.resp.text = <<>>) =>
              (genErr # Nil /\ genCall.msg = <<>>)
        /\ genErr = Nil => genCall.msg # <<>>

\* C28: when the generation call fails, the run returns an API error that
\* wraps the provider's error, and neither the editor, `git add -u`, the
\* staged-file listing nor `git commit` is executed afterwards.
C28_FailedGenerationEndsTheRun ==
    Failed("GenerateCommitMessage") =>
        /\ \A op \in {"editCommitMessage", "git add -u",
                       "git diff --name-only --cached", "git commit"} : ~Made(op)
        /\ ~final.run
        /\ HandlingBegun =>
              /\ Finished
              /\ genErr # Nil
              /\ err = APIError("failed to generate commit message", genErr)

\* A run with --edit whose backend failed, ended.
C28_Witness ==
    /\ pc = "exited" /\ edit
    /\ Failed("GenerateCommitMessage") /\ genCall.resp.err # Nil
    /\ ErrorsAs(err, "APIError") /\ Wraps(err, genCall.resp.err)

\* ---- the temp file (checked under EditorSpec)

\* The return path editCommitMessage took in the world os.
ReturnPath(os) ==
    IF os.fails \in {"create", "write", "close"} THEN os.fails
    ELSE IF ResolveEditor(os) = "" THEN "no editor"
    ELSE IF os.fails \in {"run", "read"} THEN os.fails
    ELSE IF TrimSpace(os.content) = <<>> THEN "empty edit"
    ELSE "success"

\* C29: the temp file editCommitMessage creates is removed on every return
\* path after its creation: write failure, close failure, no editor, editor
\* failure, read failure, empty edit, and success.
C29_TempFileRemovedOnEveryReturn ==
    probe.stage = "edited" =>
        IF ReturnPath(probe.os) = "create"
        THEN probe.result.tmp = "none"
        ELSE probe.result.tmp = "removed"

\* An early return after the creation: the write failed.
C29_Witness ==
    /\ probe.stage = "edited"
    /\ ReturnPath(probe.os) = "write"
    /\ probe.result.err # Nil /\ probe.result.tmp = "removed"

\* ---- flag validation

\* The run was turned down for its flags, with nothing done: no provider
\* constructed, no call and no subprocess made.  (Every way through the key
\* request in InitProvider ends with a provider or with another error, so a
\* run turned down like this has not asked for a key either.)
RejectedUpFront ==
    /\ Finished
    /\ err # Nil /\ err[1].type = "ValidationError"
    /\ err[1].field \in {"provider", "model"}
    /\ aiProvider = NoProvider
    /\ calls = <<>>

\* --provider names no provider, or --model comes without --provider.
\* (provider holds the flag until InitProvider puts the selected name there.)
BadFlags ==
    \/ provider \notin validProviders \cup {""}
    \/ provider = "" /\ model # <<>>

\* No --provider, and the configuration's default names no provider.
BadConfiguredProvider ==
    provider = "" /\ GetDefaultProvider(cfgDefaultProvider) \notin validProviders

\* C30: a bad flag combination is rejected with a Validation error before
\* any provider is constructed, any API key requested and any git subprocess
\* run: a provider name other than gemini and groq, from the flag or from the
\* configuration, and --model without --provider.
C30_BadFlagsRejectedFirst ==
    /\ BadFlags => (pc = "prerun" \/ RejectedUpFront)
    /\ BadConfiguredProvider => (pc \in {"prerun", "init"} \/ RejectedUpFront)

\* --model without --provider, turned down.
C30_Witness ==
    /\ pc = "exited" /\ exitCode = exitError
    /\ provider = "" /\ model # <<>>
    /\ RejectedUpFront /\ err[1].field = "model"

\* ---- the diff and the commit

\* C31: when the captured diff text is empty for the selected scope, the run
\* ends with a Git error and the generation call is not made: generation is
\* only ever requested with a non-empty diff.
C31_EmptyDiffEndsTheRun ==
    /\ genCall.made => genCall.diff # <<>>
    /\ (Succeeded("git diff") /\ captured.diff = <<>>) =>
          /\ Finished
          /\ ErrorsAs(err, "GitError")
          /\ ~Made("GenerateCommitMessage")

\* Everything that comes before the writes has succeeded in this run.
ReadyToWrite ==
    /\ aiProvider # NoProvider
    /\ Succeeded("ValidateModel")
    /\ Succeeded("git status") /\ Succeeded("git diff")
    /\ Succeeded("GenerateCommitMessage")
    /\ edit => Succeeded("editCommitMessage")

\* The step starts `git add -u` or `git commit`.
StartsWrite ==
    /\ Len(calls') = Len(calls) + 1
    /\ calls'[Len(calls')].op \in {"git add -u", "git commit"}

\* C32: neither `git add -u` nor `git commit` is executed before provider
\* construction, model validation, the status and diff capture, generation
\* and (with --edit) editing have all succeeded in the run; the program
\* changes the index and HEAD in no other step, so a failure in any of these
\* leaves both as the program found them.
C32_WritesOnlyAfterEverythingSucceeded ==
    [][ /\ StartsWrite => ReadyToWrite
        /\ (extCount' = extCount /\ (index' # index \/ head' # head)) =>
              (StartsWrite /\ ReadyToWrite)
        /\ (~ReadyToWrite' /\ Finished' /\ extCount' = 0) =>
              (index' = repoAtStart.index /\ head' = repoAtStart.head) ]_vars

\* A WorkingTree run with changes to add, ended by a failed edit.
C32_Witness ==
    /\ pc = "exited" /\ ~staged /\ edit
    /\ Failed("editCommitMessage") /\ Succeeded("GenerateCommitMessage")
    /\ worktree # index
    /\ index = repoAtStart.index /\ head = repoAtStart.head

\* C33: in WorkingTree scope, when `git commit` fails after `git add -u`
\* succeeded, the run returns a Git error and what `git add -u` put into the
\* index stays there: nothing is rolled back, so the index after the failed
\* run can differ from the index before it.
C33_FailedCommitKeepsTheAddedIndex ==
    (~staged /\ Succeeded("git add -u") /\ Failed("git commit")) =>
        /\ Finished
        /\ err = GitError("git commit", "failed to commit changes", ExitError)
        /\ calls[Len(calls)].op = "git commit"
        /\ head = repoAtCommit.head
        /\ index = repoAtCommit.index
        /\ extCount = 0 =>
              index = GitAddU(repoAtStart.index, repoAtStart.worktree)

\* Nobody else touched the repository, and the failed run left another index
\* than it found.
C33_Witness ==
    /\ pc = "exited" /\ exitCode = exitError
    /\ ~staged /\ Succeeded("git add -u") /\ Failed("git commit")
    /\ extCount = 0
    /\ index # repoAtStart.index /\ head = repoAtStart.head

\* The captured diff shows the change that HEAD now has for file f.
InCapturedDiff(f) ==
    \E i \in 1..Len(captured.diff) :
        captured.diff[i].path = f /\ captured.diff[i].new = head[f]

\* C34: in both scopes, with nobody else changing the repository during the
\* run, every file whose change is in the resulting commit had that change in
\* the diff text that was captured and sent to the provider; in WorkingTree
\* scope this includes the files already staged before the run.
C34_CommittedChangesWereInTheDiff ==
    (pc = "exited" /\ Succeeded("git commit") /\ extCount = 0) =>
        /\ genCall.diff = captured.diff
        /\ \A f \in Committed : InCapturedDiff(f)

\* C35: in StagedOnly scope, for a path that is staged and has further
\* unstaged modifications in the working tree, the commit made by
\* `git commit --only -- <paths>` records the staged content of the path and
\* not its working-tree content.
C35_OnlyCommitRecordsStagedContent ==
    \A f \in Files :
      ( /\ staged /\ Succeeded("git commit")
        /\ f \in Range(final.paths)
        /\ repoAtCommit.index[f] # repoAtCommit.head[f]
        /\ repoAtCommit.worktree[f] # repoAtCommit.index[f] )
      => head[f] = repoAtCommit.index[f]

\* ---- the indicator's end (checked under LiveSpec)

\* C36: once the indicator task is started, the wait for its acknowledgment
\* ends and the task ends with it, whether the indicator stops on "done",
\* on an earlier interrupt, or because it could not start, and whether the
\* provider call succeeds or fails; one acknowledgment goes through the
\* channel per generation call, and none before or after.
C36_AcknowledgmentAlwaysArrivesOnce ==
    /\ (pc = "inflight") ~> (spinner = "acknowledged")
    /\ [](obs.acks = IF spinner = "acknowledged" THEN 1 ELSE 0)
    /\ [][spinner = "acknowledged" => spinner' = "acknowledged"]_vars
    /\ []((Finished /\ Made("GenerateCommitMessage")) => spinner = "acknowledged")

\* An interrupted indicator and a failed provider call, acknowledged.
C36_Witness ==
    /\ interrupted /\ Failed("GenerateCommitMessage")
    /\ spinner = "acknowledged" /\ obs.acks = 1
    /\ pc = "exited"

\* ---- the indicator's model (checked under SpinnerSpec)

\* C37: the done flag of the indicator's model is false at first, becomes
\* true only on the string message "done" and never goes back to false; the
\* view is the empty string exactly when done is true; ticks and every other
\* message, other strings included, leave done as it is; and only "done" and
\* ctrl+c make the model quit.
C37_DoneFlagDrivesTheView ==
    probe.stage = "spinner" =>
        LET n == Len(probe.handled)
        IN  /\ probe.m.done = (\E i \in 1..n : probe.handled[i] = DoneMsg)
            /\ (probe.view = <<>>) = probe.m.done
            /\ n > 0 =>
                  ((probe.cmd = "tea.Quit") = (probe.handled[n] \in {DoneMsg, CtrlCMsg}))

\* "done" was handled, then a tick: done stays true and the view empty.
C37_Witness ==
    /\ probe.stage = "spinner"
    /\ Len(probe.handled) = 3
    /\ probe.handled[2] = DoneMsg /\ probe.handled[3] = TickMsg
    /\ probe.m.done /\ probe.view = <<>> /\ probe.cmd = "spinner.Tick"

\* ---- the order of main's switch

\* The class a typed branch reports, and the sentinel a sentinel branch reports.
TypeOfBranch ==
    [validation |-> "ValidationError", api |-> "APIError", git |-> "GitError",
     provider |-> "ProviderError", config |-> "ConfigError"]

SentinelOfBranch ==
    [noEditor |-> ErrNoEditor, notARepo |-> ErrGitRepository,
     noStagedFiles |-> ErrNoStagedFiles]

HasTypedClass(e) == \E b \in DOMAIN TypeOfBranch : ErrorsAs(e, TypeOfBranch[b])

\* Branch b is one the switch may take for error e when the typed classes are
\* tested before the sentinels.
TypedBeforeSentinels(e, b) ==
    /\ b \in DOMAIN TypeOfBranch \cup DOMAIN SentinelOfBranch \cup {"default"}
    /\ HasTypedClass(e) => (b \in DOMAIN TypeOfBranch /\ ErrorsAs(e, TypeOfBranch[b]))
    /\ b \in DOMAIN SentinelOfBranch =>
          (~HasTypedClass(e) /\ ErrorsIs(e, SentinelOfBranch[b]))
    /\ b = "default" => ~Classified(e)

\* C38: main's switch tests the typed classes (Validation, API, Git,
\* Provider, Config) before the sentinels, so an error that is both of a typed
\* class and wraps a sentinel is reported by a branch of its type; exactly
\* one branch runs for any error, and every branch exits with code 1.
C38_TypedClassesBeforeSentinels ==
    (probe.stage = "dispatch" /\ probe.ran # <<>>) =>
        /\ Len(probe.ran) = 1
        /\ TypedBeforeSentinels(probe.err, probe.ran[1])
        /\ probe.out = <<"Error", probe.ran[1]>> \o Remediation(probe.ran[1])
        /\ HasTypedClass(probe.err) => Len(probe.out) = 2
        /\ probe.code = exitError

\* main has dispatched a GitError that wraps the not-a-repository sentinel:
\* the Git branch ran, without the sentinel's remediation text.
C38_Witness ==
    /\ probe.stage = "dispatch"
    /\ probe.err = GitError("git status", "failed", ErrGitRepository)
    /\ probe.ran = <<"git">>
    /\ probe.out = <<"Error", "git">>
    /\ probe.code = exitError

====
